---- MODULE Spec2Model ----
(***************************************************************************)
(* HexMem: structured memory service.  A model of the store (the memory    *)
(* tables, decay_policies, memory_edges, sessions), of the direct write    *)
(* API with its two-stage dedup, of the ingestion pipeline, of hybrid      *)
(* recall and of the decay engine.                                         *)
(*                                                                         *)
(* Time is counted in days.  A text is a sequence of words and a word a    *)
(* sequence of characters, so that pg_trgm's similarity() is computed from *)
(* the trigrams of the words, as the extension does.  An embedding is an   *)
(* integer vector; cosine similarity is kept as an exact fraction.         *)
(***************************************************************************)
EXTENDS Integers, Sequences, FiniteSets, TLC

VARIABLES now, provider, rows, nextId, policies, edges, nextEdge, sessions, resp, recalls,
          agents, ledger, schema, query_log, inflight

vars == <<now, provider, rows, nextId, policies, edges, nextEdge, sessions, resp, recalls, agents, ledger, schema, query_log, inflight>>

----------------------------------------------------------------------------
(* Bounds of the model *)

MaxRows == 3
MaxTicks == 3
MaxCount == 1
MaxDecayRows == 2

(* The clock advances by whole steps of this many days. *)
TickSteps == {30}
MaxNow == MaxTicks * 30

----------------------------------------------------------------------------
(* Tenants, tables, types *)

Agents == {"A", "B"}
NoAgent == "null"
Never == -1
NoTtl == -1
NoEmb == <<>>

MEMORY_TABLES == {"facts", "decisions", "tasks", "events", "session_messages"}

TABLE_TO_TYPE(table) ==
    CASE table = "facts" -> "fact"
      [] table = "decisions" -> "decision"
      [] table = "tasks" -> "task"
      [] table = "events" -> "event"
      [] table = "session_messages" -> "session_message"

(* Tables whose rows carry updated_at, kept by the trigger update_updated_at() *)
HasUpdatedAtTrigger(table) == table \in {"facts", "tasks", "projects"}

----------------------------------------------------------------------------
(* Texts and pg_trgm *)

W(c) == <<c>>

TxtABC == <<W("a"), W("b"), W("c")>>
TxtABCD == <<W("a"), W("b"), W("c"), W("d")>>
TxtABCDE == <<W("a"), W("b"), W("c"), W("d"), W("e")>>
TxtX == <<W("x")>>
TxtY == <<W("y")>>
(* "A b c": the words of TxtABC, the first with a capital letter *)
TxtCapABC == <<W("A"), W("b"), W("c")>>
(* A text without any alphanumeric character, such as "!!!": it has no word *)
TxtPunct == <<>>

(* The trigrams of one word: the word padded with two blanks before and one *)
(* after, every window of three characters. *)
WordTrigrams(w) ==
    LET p == <<" ", " ">> \o w \o <<" ">>
    IN  {<<p[i], p[i + 1], p[i + 2]>> : i \in 1..(Len(p) - 2)}

Trigrams(text) == UNION {WordTrigrams(text[i]) : i \in 1..Len(text)}

(* similarity(a, b) of pg_trgm as the fraction <<shared, total>>; 0 when *)
(* either text has no trigram. *)
Similarity(a, b) ==
    LET ta == Trigrams(a)
        tb == Trigrams(b)
    IN  IF ta = {} \/ tb = {} THEN <<0, 1>>
        ELSE <<Cardinality(ta \cap tb), Cardinality(ta \cup tb)>>

(* fraction f > pct / 100 *)
FracGt(f, pct) == f[1] * 100 > pct * f[2]
FracGe(f, pct) == f[1] * 100 >= pct * f[2]
FracLess(f, g) == f[1] * g[2] < g[1] * f[2]
FracEq(f, g) == f[1] * g[2] = g[1] * f[2]

----------------------------------------------------------------------------
(* The embedder: a capability outside the repository.  Its vectors for the *)
(* sample texts all have length 5. *)

Embed(text) ==
    CASE text = TxtABC -> <<4, 2, 2, 1>>
      [] text = TxtABCD -> <<4, 2, 2, 1>>
      [] text = TxtABCDE -> <<4, 2, 2, -1>>
      [] text = TxtX -> <<4, 2, 1, 2>>
      [] text = TxtY -> <<0, 0, 0, 5>>
      [] text = TxtPunct -> <<0, 5, 0, 0>>
      [] OTHER -> <<5, 0, 0, 0>>

Dot(u, v) == u[1] * v[1] + u[2] * v[2] + u[3] * v[3] + u[4] * v[4]

Isqrt(n) == CHOOSE k \in 0..n : k * k <= n /\ (k + 1) * (k + 1) > n

(* 1 - (u <=> v): the cosine similarity as a fraction *)
Cosine(u, v) == <<Dot(u, v), Isqrt(Dot(u, u)) * Isqrt(Dot(v, v))>>

----------------------------------------------------------------------------
(* Rows of the memory tables *)

(* The column dedup and recall compare with: CONTENT_COLUMN / contentCol *)
CONTENT_COLUMN(table) ==
    CASE table = "facts" -> "content"
      [] table = "decisions" -> "title"
      [] table = "tasks" -> "title"
      [] table = "events" -> "title"
      [] table = "session_messages" -> "content"

(* `${title}: ${decision}`: the separator is no word character *)
Canonical(title, decision) == title \o decision

NewRow(id, table, agent, content, body, emb, at, via, session) ==
    [id |-> id, tbl |-> table, agent |-> agent, content |-> content,
     body |-> body, emb |-> emb, created |-> at,
     updated |-> IF HasUpdatedAtTrigger(table) THEN now ELSE at,
     accessed |-> Never, count |-> 0, status |-> "active",
     cooledAt |-> Never, via |-> via, posted |-> content, session |-> session]

RowById(id) == CHOOSE r \in rows : r.id = id
Ids == {r.id : r \in rows}

(* An UPDATE of row r: the trigger sets updated_at on facts, tasks, projects *)
Touch(r) == IF HasUpdatedAtTrigger(r.tbl) THEN [r EXCEPT !.updated = now] ELSE r

----------------------------------------------------------------------------
(* Dedup: services/dedup.ts *)

(* The thresholds, in hundredths *)
TRIGRAM_THRESHOLD == 60
SEMANTIC_THRESHOLD == 92

NoMatch == [id |-> 0, similarity |-> <<0, 1>>, type |-> "none"]

(* Stage 1: the active rows of the agent above the trigram threshold *)
SyntacticCandidates(table, agentId, content) ==
    {r \in rows : /\ r.tbl = table
                  /\ r.agent = agentId
                  /\ r.status = "active"
                  /\ FracGt(Similarity(r.content, content), TRIGRAM_THRESHOLD)}

(* Stage 2: the active, embedded rows of the agent above the cosine threshold *)
SemanticCandidates(table, agentId, embedding) ==
    {r \in rows : /\ r.tbl = table
                  /\ r.agent = agentId
                  /\ r.emb # NoEmb
                  /\ r.status = "active"
                  /\ FracGt(Cosine(r.emb, embedding), SEMANTIC_THRESHOLD)}

(* ORDER BY similarity DESC LIMIT 1: any match no other match beats *)
TopBy(matches) ==
    {x \in matches : \A q \in matches : ~FracLess(x.similarity, q.similarity)}

(* The rows of a dedup stage as { id, similarity, type } *)
SyntacticMatches(table, agentId, content) ==
    {[id |-> r.id, similarity |-> Similarity(r.content, content), type |-> "syntactic"] :
        r \in SyntacticCandidates(table, agentId, content)}

SemanticMatches(table, agentId, embedding) ==
    {[id |-> r.id, similarity |-> Cosine(r.emb, embedding), type |-> "semantic"] :
        r \in SemanticCandidates(table, agentId, embedding)}

(* A dedup without its trigram stage: a variant *)
checkDuplicateSemanticOnly(table, agentId, content, embedOk) ==
    LET s2 == TopBy(SemanticMatches(table, agentId, Embed(content)))
    IN  IF table \notin MEMORY_TABLES THEN {NoMatch}
        ELSE IF ~provider \/ ~embedOk THEN {NoMatch}
        ELSE IF s2 # {} THEN s2
        ELSE {NoMatch}

(* checkDuplicate: the set of results the queries may give (a tie between *)
(* rows of equal similarity is broken by the store).  embedOk is whether  *)
(* provider.embed succeeds. *)
(* A duplicate check that finds nothing: a variant *)
checkNothing(table, agentId, content, embedOk) == {NoMatch}

checkDuplicate(table, agentId, content, embedOk) ==
    LET s1 == TopBy(SyntacticMatches(table, agentId, content))
        s2 == TopBy(SemanticMatches(table, agentId, Embed(content)))
    IN  IF table \notin MEMORY_TABLES THEN {NoMatch}
        ELSE IF s1 # {} THEN s1
        ELSE IF ~provider \/ ~embedOk THEN {NoMatch}
        ELSE IF s2 # {} THEN s2
        ELSE {NoMatch}

(* An embedder that never fails and is always configured: a variant *)
embedTextUnfailing(text, embedOk) == Embed(text)

(* embedText: the vector, or null without a provider or when embed fails *)
embedText(text, embedOk) == IF provider /\ embedOk THEN Embed(text) ELSE NoEmb

----------------------------------------------------------------------------
(* Direct write API: routes/memory.ts *)

Created(op, agentId, content, id) ==
    [op |-> op, agent |-> agentId, content |-> content, code |-> 201,
     id |-> id, existing_id |-> 0, similarity |-> <<0, 1>>]

Conflict(op, agentId, content, m) ==
    [op |-> op, agent |-> agentId, content |-> content, code |-> 409,
     id |-> 0, existing_id |-> m.id, similarity |-> m.similarity]

Insert(row) ==
    /\ nextId <= MaxRows
    /\ rows' = rows \cup {row}
    /\ nextId' = nextId + 1

(* A POST of a fact that answers 503 when the text cannot be embedded: a variant *)
PostFactNeedsEmbedding(agentId, content, dedupOk, embedOk) ==
    /\ IF embedText(content, embedOk) = NoEmb
       THEN /\ resp' = [op |-> "POST /facts", agent |-> agentId, content |-> content,
                        code |-> 503, id |-> 0, existing_id |-> 0,
                        similarity |-> <<0, 1>>]
            /\ UNCHANGED <<rows, nextId>>
       ELSE /\ Insert(NewRow(nextId, "facts", agentId, content, <<>>,
                             embedText(content, embedOk), now, "post", 0))
            /\ resp' = Created("POST /facts", agentId, content, nextId)
    /\ UNCHANGED <<now, provider, policies, edges, nextEdge, sessions, recalls, agents, ledger, schema, query_log, inflight>>

PostFact(agentId, content, dedupOk, embedOk) ==
    /\ \E dup \in checkDuplicate("facts", agentId, content, dedupOk) :
         IF dup # NoMatch
         THEN /\ resp' = Conflict("POST /facts", agentId, content, dup)
              /\ UNCHANGED <<rows, nextId>>
         ELSE /\ Insert(NewRow(nextId, "facts", agentId, content, <<>>,
                               embedText(content, embedOk), now, "post", 0))
              /\ resp' = Created("POST /facts", agentId, content, nextId)
    /\ UNCHANGED <<now, provider, policies, edges, nextEdge, sessions, recalls, agents, ledger, schema, query_log, inflight>>

PostDecision(agentId, title, decision, dedupOk, embedOk) ==
    /\ \E dup \in checkDuplicate("decisions", agentId, Canonical(title, decision), dedupOk) :
         IF dup # NoMatch
         THEN /\ resp' = Conflict("POST /decisions", agentId, Canonical(title, decision), dup)
              /\ UNCHANGED <<rows, nextId>>
         ELSE /\ Insert(NewRow(nextId, "decisions", agentId, title, decision,
                               embedText(Canonical(title, decision), embedOk), now, "post", 0))
              /\ resp' = Created("POST /decisions", agentId, Canonical(title, decision), nextId)
    /\ UNCHANGED <<now, provider, policies, edges, nextEdge, sessions, recalls, agents, ledger, schema, query_log, inflight>>

PostTask(agentId, title, dedupOk, embedOk) ==
    /\ \E dup \in checkDuplicate("tasks", agentId, title, dedupOk) :
         IF dup # NoMatch
         THEN /\ resp' = Conflict("POST /tasks", agentId, title, dup)
              /\ UNCHANGED <<rows, nextId>>
         ELSE /\ Insert(NewRow(nextId, "tasks", agentId, title, <<>>,
                               embedText(title, embedOk), now, "post", 0))
              /\ resp' = Created("POST /tasks", agentId, title, nextId)
    /\ UNCHANGED <<now, provider, policies, edges, nextEdge, sessions, recalls, agents, ledger, schema, query_log, inflight>>

(* occurred_at is the request's, or the time of the request *)
PostEvent(agentId, title, occurred_at, embedOk) ==
    /\ Insert(NewRow(nextId, "events", agentId, title, <<>>,
                     embedText(title, embedOk), occurred_at, "post", 0))
    /\ resp' = Created("POST /events", agentId, title, nextId)
    /\ UNCHANGED <<now, provider, policies, edges, nextEdge, sessions, recalls, agents, ledger, schema, query_log, inflight>>

(* name.toLowerCase().replace(/[^a-z0-9]+/g, '-').replace(/(^-|-$)/g, ''):   *)
(* the words of the name in lower case, joined by '-'.  The slug is kept as *)
(* the sequence of the parts between the hyphens.                           *)
LowerOf ==
    [A |-> "a", B |-> "b", C |-> "c", D |-> "d", E |-> "e", F |-> "f", G |-> "g",
     H |-> "h", I |-> "i", J |-> "j", K |-> "k", L |-> "l", M |-> "m", N |-> "n",
     O |-> "o", P |-> "p", Q |-> "q", R |-> "r", S |-> "s", T |-> "t", U |-> "u",
     V |-> "v", W |-> "w", X |-> "x", Y |-> "y", Z |-> "z"]
toLowerCase(c) == IF c \in DOMAIN LowerOf THEN LowerOf[c] ELSE c

Slug(name) ==
    [i \in 1..Len(name) |->
        [j \in 1..Len(name[i]) |-> toLowerCase(name[i][j])] \o <<>>] \o <<>>

(* POST /api/v1/projects: no dedup; UNIQUE(agent_id, slug) rejects the INSERT *)
(* and the handler does not catch the error                                   *)
PostProject(agentId, name, embedOk) ==
    /\ IF \E r \in rows : /\ r.tbl = "projects" /\ r.agent = agentId
                           /\ Slug(r.content) = Slug(name)
       THEN /\ resp' = [op |-> "POST /projects", agent |-> agentId, content |-> name,
                        code |-> 500, id |-> 0, existing_id |-> 0,
                        similarity |-> <<0, 1>>]
            /\ UNCHANGED <<rows, nextId>>
       ELSE /\ Insert(NewRow(nextId, "projects", agentId, name, <<>>,
                             embedText(name, embedOk), now, "post", 0))
            /\ resp' = Created("POST /projects", agentId, name, nextId)
    /\ UNCHANGED <<now, provider, policies, edges, nextEdge, sessions, recalls, agents, ledger, schema, query_log, inflight>>

(* GET /:table/:id: the row, and its access is counted *)
GetById(table, id) ==
    /\ IF \E r \in rows : r.id = id /\ r.tbl = table
       THEN LET r == RowById(id)
            IN  IF table = "projects"
                THEN /\ rows' = rows
                     /\ resp' = [op |-> "GET", table |-> table, id |-> id, code |-> 200]
                ELSE /\ r.count < MaxCount
                     /\ rows' = (rows \ {r}) \cup
                                {Touch([r EXCEPT !.count = @ + 1, !.accessed = now])}
                     /\ resp' = [op |-> "GET", table |-> table, id |-> id, code |-> 200]
       ELSE /\ rows' = rows
            /\ resp' = [op |-> "GET", table |-> table, id |-> id, code |-> 404]
    /\ UNCHANGED <<now, provider, nextId, policies, edges, nextEdge, sessions, recalls, agents, ledger, schema, query_log, inflight>>

PutFact(id, content, embedOk) ==
    /\ IF \E r \in rows : r.id = id /\ r.tbl = "facts"
       THEN LET r == RowById(id)
                e == embedText(content, embedOk)
            IN  /\ rows' = (rows \ {r}) \cup
                           {Touch([r EXCEPT !.content = content,
                                            !.emb = IF e # NoEmb THEN e ELSE @])}
                /\ resp' = [op |-> "PUT /facts", id |-> id, code |-> 200]
       ELSE /\ rows' = rows
            /\ resp' = [op |-> "PUT /facts", id |-> id, code |-> 404]
    /\ UNCHANGED <<now, provider, nextId, policies, edges, nextEdge, sessions, recalls, agents, ledger, schema, query_log, inflight>>

(* DELETE /:table/:id *)
DeleteById(table, id) ==
    /\ IF \E r \in rows : r.id = id /\ r.tbl = table
       THEN /\ rows' = rows \ {RowById(id)}
            /\ resp' = [op |-> "DELETE", table |-> table, id |-> id, code |-> 204]
       ELSE /\ rows' = rows
            /\ resp' = [op |-> "DELETE", table |-> table, id |-> id, code |-> 404]
    /\ UNCHANGED <<now, provider, nextId, policies, edges, nextEdge, sessions, recalls, agents, ledger, schema, query_log, inflight>>

(* The passing of time *)
(* The tables with a PUT /:id route; a PUT to any other path is answered by *)
(* the server's route-not-found reply                                      *)
PUT_ROUTES == {"facts", "tasks", "projects"}

PutById(table, id, content, embedOk) ==
    /\ IF table \in PUT_ROUTES /\ \E r \in rows : r.id = id /\ r.tbl = table
       THEN LET r == RowById(id)
                e == embedText(content, embedOk)
            IN  /\ rows' = (rows \ {r}) \cup
                           {Touch([r EXCEPT !.content = content,
                                            !.emb = IF e # NoEmb THEN e ELSE @])}
                /\ resp' = [op |-> "PUT", table |-> table, id |-> id, code |-> 200]
       ELSE /\ rows' = rows
            /\ resp' = [op |-> "PUT", table |-> table, id |-> id, code |-> 404]
    /\ UNCHANGED <<now, provider, nextId, policies, edges, nextEdge, sessions, recalls, agents, ledger, schema, query_log, inflight>>

Tick ==
    /\ \E d \in TickSteps : now + d <= MaxNow /\ now' = now + d
    /\ resp' = [op |-> "tick"]
    /\ UNCHANGED <<provider, rows, nextId, policies, edges, nextEdge, sessions, recalls, agents, ledger, schema, query_log, inflight>>

----------------------------------------------------------------------------
(* Decay engine: services/decay.ts, migrations/008_decay.sql *)

Policy(agentId, type, ttl, min) ==
    [agent |-> agentId, type |-> type, ttl_days |-> ttl, min_accesses |-> min]

(* Seed rows under which every type decays: a variant of the migration *)
EveryTypeDecays ==
    {Policy(NoAgent, "fact", 90, 3),
     Policy(NoAgent, "decision", 30, 1),
     Policy(NoAgent, "event", 30, 2),
     Policy(NoAgent, "task", 30, 1),
     Policy(NoAgent, "session_message", 60, 5)}

(* The rows the migration seeds: agent_id NULL *)
DefaultPolicies ==
    {Policy(NoAgent, "fact", 90, 3),
     Policy(NoAgent, "decision", NoTtl, 0),
     Policy(NoAgent, "event", 30, 2),
     Policy(NoAgent, "task", NoTtl, 0),
     Policy(NoAgent, "session_message", 60, 5)}

(* Rows of decay_policies an agent may own besides *)
OwnPolicySamples ==
    {Policy("A", "event", NoTtl, 0),
     Policy("A", "fact", 30, 1),
     Policy("B", "decision", 30, 1),
     Policy("B", "event", 30, 1)}

NoPolicy == Policy(NoAgent, "none", NoTtl, 0)

(* SELECT ... WHERE memory_type = $1 AND (agent_id = $2 OR agent_id IS NULL) *)
(* ORDER BY agent_id NULLS LAST LIMIT 1; without an agent, $2 is null and   *)
(* agent_id = $2 holds of no row *)
PolicyLookup(memType, agentId) ==
    LET own == {p \in policies : p.type = memType /\ agentId # NoAgent /\ p.agent = agentId}
        glob == {p \in policies : p.type = memType /\ p.agent = NoAgent}
    IN  IF own # {} THEN CHOOSE p \in own : TRUE
        ELSE IF glob # {} THEN CHOOSE p \in glob : TRUE
        ELSE NoPolicy

(* if (policies.length === 0 || policies[0].ttl_days === null) continue *)
Decays(policy) == policy # NoPolicy /\ policy.ttl_days # NoTtl

(* agentFilter: AND agent_id = $3 when the sweep has an agent *)
InScope(r, agentId) == agentId = NoAgent \/ r.agent = agentId

(* The column the archive step compares: TABLE_TIMESTAMPS[table].updated *)
UpdatedColumn(r) == IF HasUpdatedAtTrigger(r.tbl) THEN r.updated ELSE r.created

(* A cooling test that leaves out access_count < $1: a variant *)
CoolingDueByAgeAlone(r, policy, agentId) ==
    /\ r.status = "active"
    /\ InScope(r, agentId)
    /\ \/ r.accessed = Never /\ r.created < now - policy.ttl_days
       \/ r.accessed # Never /\ r.accessed < now - policy.ttl_days

(* WHERE of the UPDATE active -> cooling *)
CoolingDue(r, policy, agentId) ==
    /\ r.status = "active"
    /\ InScope(r, agentId)
    /\ r.count < policy.min_accesses
    /\ \/ r.accessed = Never /\ r.created < now - policy.ttl_days
       \/ r.accessed # Never /\ r.accessed < now - policy.ttl_days

ARCHIVE_DAYS == 30

(* WHERE of the UPDATE cooling -> archived *)
ArchiveDue(r, agentId) ==
    /\ r.status = "cooling"
    /\ InScope(r, agentId)
    /\ UpdatedColumn(r) < now - ARCHIVE_DAYS

Cool(r) == Touch([r EXCEPT !.status = "cooling", !.cooledAt = now])
Archive(r) == Touch([r EXCEPT !.status = "archived"])

(* One row through the two UPDATEs of its table *)
SweepRow(r, agentId) ==
    LET policy == PolicyLookup(TABLE_TO_TYPE(r.tbl), agentId)
        r1 == IF CoolingDue(r, policy, agentId) THEN Cool(r) ELSE r
    IN  IF ~Decays(policy) THEN r
        ELSE IF ArchiveDue(r1, agentId) THEN Archive(r1) ELSE r1

(* runDecaySweep(agentId?) *)
runDecaySweep(op, agentId) ==
    LET swept == {r \in rows : Decays(PolicyLookup(TABLE_TO_TYPE(r.tbl), agentId))}
        cooled == {r \in swept : CoolingDue(r, PolicyLookup(TABLE_TO_TYPE(r.tbl), agentId), agentId)}
        archived == {r \in swept : SweepRow(r, agentId).status = "archived" /\ r.status # "archived"}
        after == {SweepRow(r, agentId) : r \in rows}
        immune == {r \in after : /\ Decays(PolicyLookup(TABLE_TO_TYPE(r.tbl), agentId))
                                 /\ r.status = "active"
                                 /\ InScope(r, agentId)
                                 /\ r.count >= PolicyLookup(TABLE_TO_TYPE(r.tbl), agentId).min_accesses}
    IN  /\ rows' = after
        /\ resp' = [op |-> op, agent |-> agentId, code |-> 200,
                    cooled |-> {r.id : r \in cooled},
                    archived |-> {r.id : r \in archived},
                    transitioned_to_cooling |-> Cardinality(cooled),
                    transitioned_to_archived |-> Cardinality(archived),
                    immune_items |-> Cardinality(immune)]
        /\ UNCHANGED <<now, provider, nextId, policies, edges, nextEdge, sessions, recalls, agents, ledger, schema, query_log, inflight>>

(* POST /api/v1/decay/sweep with or without agent_id *)
SweepManual(agentId) == runDecaySweep("sweep", agentId)

(* The hourly timer of startBackgroundJobs *)
SweepTicker == runDecaySweep("sweep", NoAgent)

(* A revival that leaves access_count as it is: a variant *)
reviveItemUncounted(table, itemId) ==
    /\ IF table \notin MEMORY_TABLES
       THEN /\ rows' = rows
            /\ resp' = [op |-> "revive", table |-> table, id |-> itemId, result |-> "throw"]
       ELSE IF \E r \in rows : r.id = itemId /\ r.tbl = table /\ r.status \in {"cooling", "archived"}
       THEN LET r == RowById(itemId)
            IN  /\ r.count < MaxCount
                /\ rows' = (rows \ {r}) \cup
                           {Touch([r EXCEPT !.status = "active", !.accessed = now])}
                /\ resp' = [op |-> "revive", table |-> table, id |-> itemId, result |-> "true"]
       ELSE /\ rows' = rows
            /\ resp' = [op |-> "revive", table |-> table, id |-> itemId, result |-> "false"]
    /\ UNCHANGED <<now, provider, nextId, policies, edges, nextEdge, sessions, recalls, agents, ledger, schema, query_log, inflight>>

(* reviveItem(table, itemId) *)
reviveItem(table, itemId) ==
    /\ IF table \notin MEMORY_TABLES
       THEN /\ rows' = rows
            /\ resp' = [op |-> "revive", table |-> table, id |-> itemId, result |-> "throw"]
       ELSE IF \E r \in rows : r.id = itemId /\ r.tbl = table /\ r.status \in {"cooling", "archived"}
       THEN LET r == RowById(itemId)
            IN  /\ r.count < MaxCount
                /\ rows' = (rows \ {r}) \cup
                           {Touch([r EXCEPT !.status = "active", !.count = @ + 1,
                                            !.accessed = now])}
                /\ resp' = [op |-> "revive", table |-> table, id |-> itemId, result |-> "true"]
       ELSE /\ rows' = rows
            /\ resp' = [op |-> "revive", table |-> table, id |-> itemId, result |-> "false"]
    /\ UNCHANGED <<now, provider, nextId, policies, edges, nextEdge, sessions, recalls, agents, ledger, schema, query_log, inflight>>

----------------------------------------------------------------------------
(* Sessions and the ingestion pipeline: routes/sessions.ts *)

MaxSessions == 1
MaxEdges == 3

(* POST /api/v1/sessions *)
(* sessions.summary when no summary has been stored *)
NoSummary == {}

CreateSession(agentId) ==
    /\ Cardinality(sessions) < MaxSessions
    /\ sessions' = sessions \cup
           {[id |-> Cardinality(sessions) + 1, agent |-> agentId, ended_at |-> Never,
             summary |-> NoSummary]}
    /\ resp' = [op |-> "POST /sessions", agent |-> agentId, code |-> 201,
                id |-> Cardinality(sessions) + 1]
    /\ UNCHANGED <<now, provider, rows, nextId, policies, edges, nextEdge, recalls, agents, ledger, schema, query_log, inflight>>

(* What the extractor may return: facts, decisions <<title, decision>>, *)
(* tasks and events by title *)
Extraction(f, d, t, e) == [facts |-> f, decisions |-> d, tasks |-> t, events |-> e]

NoExtraction == Extraction(<<>>, <<>>, <<>>, <<>>)

ExtractionSamples ==
    {NoExtraction,
     Extraction(<<TxtABC>>, <<>>, <<>>, <<>>),
     Extraction(<<TxtABC, TxtABC>>, <<>>, <<>>, <<>>),
     Extraction(<<>>, <<<<TxtX, TxtY>>>>, <<TxtABC>>, <<>>),
     Extraction(<<>>, <<>>, <<>>, <<TxtX>>),
     Extraction(<<TxtX>>, <<>>, <<>>, <<TxtX>>)}

(* The extracted items in the order storeExtractedItems stores them *)
ItemSeq(ex) ==
    [i \in 1..Len(ex.facts) |->
        [tbl |-> "facts", type |-> "fact", content |-> ex.facts[i], body |-> <<>>,
         text |-> ex.facts[i], relation |-> "derived_from"]]
    \o [i \in 1..Len(ex.decisions) |->
        [tbl |-> "decisions", type |-> "decision", content |-> ex.decisions[i][1],
         body |-> ex.decisions[i][2],
         text |-> Canonical(ex.decisions[i][1], ex.decisions[i][2]),
         relation |-> "decided_in"]]
    \o [i \in 1..Len(ex.tasks) |->
        [tbl |-> "tasks", type |-> "task", content |-> ex.tasks[i], body |-> <<>>,
         text |-> ex.tasks[i], relation |-> "derived_from"]]
    \o [i \in 1..Len(ex.events) |->
        [tbl |-> "events", type |-> "event", content |-> ex.events[i], body |-> <<>>,
         text |-> ex.events[i], relation |-> "derived_from"]]

(* weight REAL DEFAULT 1.0 in tenths, metadata JSONB DEFAULT '{}' *)
EmptyMetadata == "{}"

Edge(id, agentId, st, sid, tt, tid, relation, weight, metadata) ==
    [id |-> id, agent |-> agentId, source_type |-> st, source_id |-> sid,
     target_type |-> tt, target_id |-> tid, relation |-> relation, weight |-> weight,
     metadata |-> metadata]

(* UNIQUE(source_type, source_id, target_type, target_id, relation) *)
SameTuple(e, st, sid, tt, tid, relation) ==
    /\ e.source_type = st /\ e.source_id = sid
    /\ e.target_type = tt /\ e.target_id = tid
    /\ e.relation = relation

(* storeExtractedItems: per item, INSERT the row, then INSERT the edge to the *)
(* session ON CONFLICT DO NOTHING.  The k-th item gets the id first + k - 1.  *)
StoredRows(agentId, sessionId, items, first, embedOk) ==
    {NewRow(first + k - 1, items[k].tbl, agentId, items[k].content, items[k].body,
            embedText(items[k].text, embedOk), now, "ingest",
            IF items[k].tbl = "decisions" THEN sessionId ELSE 0) : k \in 1..Len(items)}

(* Edges for the extracted facts only: a variant *)
StoredEdgesOfFacts(agentId, sessionId, items, first) ==
    {Edge(nextEdge + k - 1, agentId, items[k].type, first + k - 1, "session", sessionId,
          items[k].relation, 10, EmptyMetadata) :
        k \in {j \in 1..Len(items) : items[j].tbl = "facts"}}

StoredEdges(agentId, sessionId, items, first) ==
    {Edge(nextEdge + k - 1, agentId, items[k].type, first + k - 1, "session", sessionId,
          items[k].relation, 10, EmptyMetadata) :
        k \in {j \in 1..Len(items) :
                 ~\E e \in edges : SameTuple(e, items[j].type, first + j - 1, "session",
                                             sessionId, items[j].relation)}}

storeExtractedItems(base, agentId, sessionId, items, first, embedOk) ==
    /\ rows' = base \cup StoredRows(agentId, sessionId, items, first, embedOk)
    /\ edges' = edges \cup StoredEdges(agentId, sessionId, items, first)
    /\ nextEdge' = nextEdge + Len(items)
    /\ nextId' = first + Len(items)

IdsOf(items, first, table) == {first + k - 1 : k \in {j \in 1..Len(items) : items[j].tbl = table}}

(* POST /api/v1/sessions/:id/messages *)
AddMessage(sessionId, content, ex, embedOk, embedItemsOk) ==
    /\ IF ~\E s \in sessions : s.id = sessionId
       THEN /\ resp' = [op |-> "POST /messages", session |-> sessionId, code |-> 404]
            /\ UNCHANGED <<rows, nextId, edges, nextEdge>>
       ELSE LET agentId == (CHOOSE s \in sessions : s.id = sessionId).agent
                message == NewRow(nextId, "session_messages", agentId, content, <<>>,
                                  embedText(content, embedOk), now, "ingest", sessionId)
                items == ItemSeq(ex)
                first == nextId + 1
            IN  /\ nextId + Len(items) <= MaxRows
                /\ nextEdge + Len(items) - 1 <= MaxEdges
                /\ storeExtractedItems(rows \cup {message}, agentId, sessionId, items,
                                       first, embedItemsOk)
                /\ resp' = [op |-> "POST /messages", session |-> sessionId, code |-> 201,
                            agent |-> agentId, message |-> nextId,
                            asked |-> ex,
                            factIds |-> IdsOf(items, first, "facts"),
                            decisionIds |-> IdsOf(items, first, "decisions"),
                            taskIds |-> IdsOf(items, first, "tasks"),
                            eventIds |-> IdsOf(items, first, "events"),
                            extracted |-> [facts |-> Cardinality(IdsOf(items, first, "facts")),
                                           decisions |-> Cardinality(IdsOf(items, first, "decisions")),
                                           tasks |-> Cardinality(IdsOf(items, first, "tasks")),
                                           events |-> Cardinality(IdsOf(items, first, "events"))]]
    /\ UNCHANGED <<now, provider, policies, sessions, recalls, agents, ledger, schema, query_log, inflight>>

(* The messages of a session *)
SessionMessages(sessionId) ==
    {r \in rows : r.tbl = "session_messages" /\ r.session = sessionId}

(* summarizeSession: null without an API key, without messages or when the  *)
(* model fails; otherwise a text made from the messages, kept here as the   *)
(* set of their ids                                                         *)
summarizeSession(sessionId, summaryOk) ==
    IF summaryOk /\ SessionMessages(sessionId) # {}
    THEN {r.id : r \in SessionMessages(sessionId)}
    ELSE NoSummary

(* An end handler without the ended_at check: a variant *)
EndSessionAgain(sessionId, summaryOk) ==
    /\ IF ~\E s \in sessions : s.id = sessionId
       THEN /\ resp' = [op |-> "POST /end", session |-> sessionId, code |-> 404]
            /\ UNCHANGED sessions
       ELSE LET s == CHOOSE x \in sessions : x.id = sessionId
                summary == summarizeSession(sessionId, summaryOk)
                updated == [s EXCEPT !.ended_at = now,
                                     !.summary = IF summary # NoSummary THEN summary ELSE @]
            IN  /\ sessions' = (sessions \ {s}) \cup {updated}
                /\ resp' = [op |-> "POST /end", session |-> sessionId, code |-> 200,
                            ended_at |-> updated.ended_at, summary |-> updated.summary]
    /\ UNCHANGED <<now, provider, rows, nextId, policies, edges, nextEdge, recalls, agents, ledger, schema, query_log, inflight>>

(* POST /api/v1/sessions/:id/end *)
EndSession(sessionId, summaryOk) ==
    /\ IF ~\E s \in sessions : s.id = sessionId
       THEN /\ resp' = [op |-> "POST /end", session |-> sessionId, code |-> 404]
            /\ UNCHANGED sessions
       ELSE LET s == CHOOSE x \in sessions : x.id = sessionId
                summary == summarizeSession(sessionId, summaryOk)
                updated == [s EXCEPT !.ended_at = now,
                                     !.summary = IF summary # NoSummary THEN summary ELSE @]
            IN  IF s.ended_at # Never
                THEN /\ resp' = [op |-> "POST /end", session |-> sessionId, code |-> 400]
                     /\ UNCHANGED sessions
                ELSE /\ sessions' = (sessions \ {s}) \cup {updated}
                     /\ resp' = [op |-> "POST /end", session |-> sessionId, code |-> 200,
                                 ended_at |-> updated.ended_at,
                                 summary |-> updated.summary]
    /\ UNCHANGED <<now, provider, rows, nextId, policies, edges, nextEdge, recalls, agents, ledger, schema, query_log, inflight>>

(* GET /api/v1/sessions/:id: the session with its message count *)
GetSession(sessionId) ==
    /\ IF ~\E s \in sessions : s.id = sessionId
       THEN resp' = [op |-> "GET /sessions", session |-> sessionId, code |-> 404]
       ELSE LET s == CHOOSE x \in sessions : x.id = sessionId
            IN  resp' = [op |-> "GET /sessions", session |-> sessionId, code |-> 200,
                         ended_at |-> s.ended_at, summary |-> s.summary,
                         message_count |-> Cardinality(SessionMessages(sessionId))]
    /\ UNCHANGED <<now, provider, rows, nextId, policies, edges, nextEdge, sessions, recalls, agents, ledger, schema, query_log, inflight>>

----------------------------------------------------------------------------
(* Edges: routes/edges.ts *)

(* A request field that was left out of the body *)
Omitted == "undefined"

(* A request without a weight *)
NoWeight == -1

(* weight ?? 1.0 : only an absent weight is replaced, 0 is kept *)
WeightOrDefault(weight) == IF weight = NoWeight THEN 10 ELSE weight

(* metadata || {} *)
MetadataOrDefault(metadata) == IF metadata = Omitted THEN EmptyMetadata ELSE metadata

EdgeCreated(agentId, weight, metadata, row) ==
    [op |-> "POST /edges", agent |-> agentId, code |-> 201, id |-> row.id,
     weight |-> row.weight, asked_weight |-> weight, asked_metadata |-> metadata,
     edge |-> row]

(* INSERT without the ON CONFLICT clause and without the UNIQUE constraint: a variant *)
PostEdgeAlwaysInserts(agentId, st, sid, tt, tid, relation, weight, metadata) ==
    /\ nextEdge <= MaxEdges
    /\ LET row == Edge(nextEdge, agentId, st, sid, tt, tid, relation,
                       WeightOrDefault(weight), MetadataOrDefault(metadata))
       IN  /\ edges' = edges \cup {row}
           /\ nextEdge' = nextEdge + 1
           /\ resp' = EdgeCreated(agentId, weight, metadata, row)
    /\ UNCHANGED <<now, provider, rows, nextId, policies, sessions, recalls, agents, ledger, schema, query_log, inflight>>

(* INSERT ... ON CONFLICT (5-tuple) DO UPDATE SET weight, metadata RETURNING * *)
PostEdge(agentId, st, sid, tt, tid, relation, weight, metadata) ==
    /\ IF \E e \in edges : SameTuple(e, st, sid, tt, tid, relation)
       THEN LET e == CHOOSE x \in edges : SameTuple(x, st, sid, tt, tid, relation)
                row == [e EXCEPT !.weight = WeightOrDefault(weight),
                                 !.metadata = MetadataOrDefault(metadata)]
            IN  /\ edges' = (edges \ {e}) \cup {row}
                /\ resp' = EdgeCreated(agentId, weight, metadata, row)
                /\ UNCHANGED nextEdge
       ELSE /\ nextEdge <= MaxEdges
            /\ LET row == Edge(nextEdge, agentId, st, sid, tt, tid, relation,
                               WeightOrDefault(weight), MetadataOrDefault(metadata))
               IN  /\ edges' = edges \cup {row}
                   /\ resp' = EdgeCreated(agentId, weight, metadata, row)
            /\ nextEdge' = nextEdge + 1
    /\ UNCHANGED <<now, provider, rows, nextId, policies, sessions, recalls, agents, ledger, schema, query_log, inflight>>

(* DELETE /api/v1/edges/:id *)
DeleteEdge(id) ==
    /\ IF \E e \in edges : e.id = id
       THEN /\ edges' = {e \in edges : e.id # id}
            /\ resp' = [op |-> "DELETE /edges", id |-> id, code |-> 204]
       ELSE /\ edges' = edges
            /\ resp' = [op |-> "DELETE /edges", id |-> id, code |-> 404]
    /\ UNCHANGED <<now, provider, rows, nextId, policies, nextEdge, sessions, recalls, agents, ledger, schema, query_log, inflight>>

----------------------------------------------------------------------------
(* Recall: routes/recall.ts *)

RECALL_TABLES == <<"session_messages", "facts", "decisions", "tasks", "events">>

RECURSIVE Gcd(_, _)
Gcd(a, b) == IF b = 0 THEN a ELSE Gcd(b, a % b)

Abs(n) == IF n < 0 THEN 0 - n ELSE n

(* A fraction in lowest terms, its denominator positive *)
Norm(f) ==
    LET g == Gcd(Abs(f[1]), f[2])
    IN  IF f[1] = 0 THEN <<0, 1>> ELSE <<f[1] \div g, f[2] \div g>>

FracAdd(f, g) == Norm(<<f[1] * g[2] + g[1] * f[2], f[2] * g[2]>>)

(* f times a weight given in tenths *)
Weighted(f, tenths) == Norm(<<f[1] * tenths, f[2] * 10>>)

(* A signal a result does not carry *)
NoSignal == <<>>

OrZero(signal) == IF signal = NoSignal THEN <<0, 1>> ELSE signal

(* The rows of the semantic arm of one table *)
RecallSemanticRows(table, agentId) ==
    {r \in rows : /\ r.tbl = table
                  /\ r.agent = agentId
                  /\ r.emb # NoEmb
                  /\ r.status = "active"}

(* A lexical arm that reads rows of any decay_status: a variant *)
RecallKeywordRowsAnyStatus(table, agentId, queryText) ==
    {r \in rows : /\ r.tbl = table
                  /\ r.agent = agentId
                  /\ FracGt(Similarity(r.content, queryText), 10)}

(* The rows of the lexical arm of one table: similarity > 0.1 *)
RecallKeywordRows(table, agentId, queryText) ==
    {r \in rows : /\ r.tbl = table
                  /\ r.agent = agentId
                  /\ r.status = "active"
                  /\ FracGt(Similarity(r.content, queryText), 10)}

Min(a, b) == IF a < b THEN a ELSE b

(* ORDER BY similarity DESC LIMIT limit: every sequence the store may return *)
Ordered(cands, limit) ==
    LET n == Min(Cardinality(cands), limit)
    IN  {s \in [1..n -> cands] :
            /\ \A i, j \in 1..n :
                  i < j => s[i] # s[j] /\ ~FracLess(s[i].similarity, s[j].similarity)
            /\ \A r \in cands : (\A i \in 1..n : s[i] # r) =>
                  \A i \in 1..n : ~FracLess(s[i].similarity, r.similarity)}

(* A row as an arm returns it: id, content, time column and similarity *)
ArmRow(r, similarity) ==
    [id |-> r.id, content |-> r.content, created_at |-> r.created,
     similarity |-> similarity]

(* What allResults gets from one table: the semantic rows in their order,  *)
(* each with the keyword signal when the lexical arm returned it too, then *)
(* the lexical rows not yet present                                        *)
TableResults(table, sem, kw) ==
    LET semIds == {sem[i].id : i \in 1..Len(sem)}
        simOf == [id \in {kw[i].id : i \in 1..Len(kw)} |->
                    (CHOOSE x \in {kw[i] : i \in 1..Len(kw)} : x.id = id).similarity]
        fresh == SelectSeq(kw, LAMBDA x : x.id \notin semIds)
    IN  [i \in 1..Len(sem) |->
            [id |-> sem[i].id, type |-> TABLE_TO_TYPE(table), content |-> sem[i].content,
             semantic |-> sem[i].similarity,
             keyword |-> IF sem[i].id \in DOMAIN simOf THEN simOf[sem[i].id] ELSE NoSignal,
             created_at |-> sem[i].created_at]]
        \o [i \in 1..Len(fresh) |->
            [id |-> fresh[i].id, type |-> TABLE_TO_TYPE(table), content |-> fresh[i].content,
             semantic |-> NoSignal, keyword |-> fresh[i].similarity,
             created_at |-> fresh[i].created_at]]

(* The optional types field of a recall request: absent, or a list *)
NoTypes == [given |-> FALSE, list |-> {}]
TypesList(list) == [given |-> TRUE, list |-> list]

RECALL_TYPES == {TABLE_TO_TYPE(RECALL_TABLES[k]) : k \in 1..Len(RECALL_TABLES)}

(* A filter that keeps every table: a variant *)
tablesToSearchAll(types) == RECALL_TYPES

(* RECALL_TABLES.filter(t => !types || types.length === 0 || types.includes(t.type)) *)
tablesToSearch(types) ==
    {t \in RECALL_TYPES : ~types.given \/ types.list = {} \/ t \in types.list}

(* allResults after the tables from the k-th on have been searched *)
RECURSIVE AllResults(_, _, _, _, _, _)
AllResults(k, agentId, queryText, queryEmbedding, types, limit) ==
    IF k > Len(RECALL_TABLES) THEN {<<>>}
    ELSE LET table == RECALL_TABLES[k]
             rest == AllResults(k + 1, agentId, queryText, queryEmbedding, types, limit)
             semRows == {ArmRow(r, Cosine(r.emb, queryEmbedding)) :
                           r \in RecallSemanticRows(table, agentId)}
             kwRows == {ArmRow(r, Similarity(r.content, queryText)) :
                          r \in RecallKeywordRows(table, agentId, queryText)}
             sems == IF queryEmbedding = NoEmb THEN {<<>>}
                     ELSE UNION {Ordered(c, limit) : c \in {semRows}}
             kws == UNION {Ordered(c, limit) : c \in {kwRows}}
         IN  IF TABLE_TO_TYPE(table) \notin tablesToSearch(types) THEN rest
             ELSE {TableResults(table, sem, kw) \o tail :
                     sem \in sems, kw \in kws, tail \in rest}

(* Request weights in tenths; the defaults are 0.7, 0.2 and 0.1 *)
DefaultWeights == [semantic |-> 7, keyword |-> 2, recency |-> 1]

MAX_AGE_DAYS == 90

(* Math.max(0, 1 - age / maxAge) *)
Recency(created_at) ==
    LET age == now - created_at
    IN  IF age >= MAX_AGE_DAYS THEN <<0, 1>>
        ELSE Norm(<<MAX_AGE_DAYS - age, MAX_AGE_DAYS>>)

(* A rerank that reads the semantic signal only: a variant *)
ScoreSemanticOnly(e, weights) ==
    LET s == OrZero(e.semantic)
    IN  Norm(<<s[1] * weights.semantic, 10 * s[2]>>)

(* The weighted sum of the signals, in lowest terms; a top-level result  *)
(* has no graph_boost                                                    *)
Score(e, weights) ==
    LET s == OrZero(e.semantic)
        k == OrZero(e.keyword)
        c == Recency(e.created_at)
    IN  Norm(<<s[1] * weights.semantic * k[2] * c[2]
               + k[1] * weights.keyword * s[2] * c[2]
               + c[1] * weights.recency * s[2] * k[2],
               10 * s[2] * k[2] * c[2]>>)

Scored(e, weights) ==
    [id |-> e.id, type |-> e.type, content |-> e.content,
     score |-> Score(e, weights),
     signals |-> [semantic |-> e.semantic, keyword |-> e.keyword,
                  recency |-> Recency(e.created_at)],
     related |-> {}, expanded |-> FALSE]

(* allResults.sort((a, b) => b.score - a.score): stable, highest first *)
SortByScore(seq) ==
    LET n == Len(seq)
        pos(i) == 1 + Cardinality({j \in 1..n :
                        \/ FracLess(seq[i].score, seq[j].score)
                        \/ FracEq(seq[i].score, seq[j].score) /\ j < i})
    IN  [p \in 1..n |-> seq[CHOOSE i \in 1..n : pos(i) = p]]

(* getRelatedItems: the neighbours over the agent's edges, each fetched by *)
(* id from the table of its type                                          *)
getRelatedItems(itemId, itemType, agentId) ==
    LET out == {[direction |-> "outgoing", related_type |-> e.target_type,
                 related_id |-> e.target_id, relation |-> e.relation, weight |-> e.weight] :
                   e \in {x \in edges : /\ x.source_type = itemType
                                        /\ x.source_id = itemId
                                        /\ x.agent = agentId}}
        inc == {[direction |-> "incoming", related_type |-> e.source_type,
                 related_id |-> e.source_id, relation |-> e.relation, weight |-> e.weight] :
                   e \in {x \in edges : /\ x.target_type = itemType
                                        /\ x.target_id = itemId
                                        /\ x.agent = agentId}}
        found(g) == {r \in rows : r.id = g.related_id /\ TABLE_TO_TYPE(r.tbl) = g.related_type}
    IN  {[id |-> g.related_id, type |-> g.related_type, score |-> g.weight,
          relation |-> g.relation, direction |-> g.direction] :
            g \in {x \in out \cup inc : found(x) # {}}}

EXPANSION_LIMIT == 5

(* A traversal over every result: a variant *)
ExpandEvery(top, include_related, agentId) ==
    [i \in 1..Len(top) |->
        IF include_related
        THEN [top[i] EXCEPT !.related = getRelatedItems(top[i].id, top[i].type, agentId),
                            !.expanded = TRUE]
        ELSE top[i]]

(* Step 5: for (const result of topResults.slice(0, 5)) result.related = ... *)
Expand(top, include_related, agentId) ==
    [i \in 1..Len(top) |->
        IF include_related /\ i <= EXPANSION_LIMIT
        THEN [top[i] EXCEPT !.related = getRelatedItems(top[i].id, top[i].type, agentId),
                            !.expanded = TRUE]
        ELSE top[i]]

(* The query log (services/querylog.ts, server.ts).  The plugin adds its    *)
(* onResponse hook to the instance it is given.  server.ts hands it over   *)
(* with app.register, which gives a plugin a context of its own below the  *)
(* root, and adds the routes to the root instance itself.  A hook runs for *)
(* the routes of the context it was added to and of the contexts below.    *)
TRACKED_ENDPOINTS == {"/api/v1/search", "/api/v1/recall"}
ParentContext == [queryLogPlugin |-> "root"]
HookContext == "queryLogPlugin"
RouteContext == "root"

RECURSIVE Inherits(_, _)
Inherits(context, from) ==
    \/ context = from
    \/ context \in DOMAIN ParentContext /\ Inherits(ParentContext[context], from)

LogEntry(url, method, agentId, queryText, status) ==
    [endpoint |-> url, agent_id |-> agentId, query_text |-> queryText,
     metadata |-> [method |-> method, status_code |-> status]]

(* The query_log a response leaves: the INSERT may fail, which is ignored *)
onResponse(url, method, agentId, queryText, status) ==
    IF Inherits(RouteContext, HookContext) /\ url \in TRACKED_ENDPOINTS /\ method = "POST"
    THEN {Append(query_log, LogEntry(url, method, agentId, queryText, status)), query_log}
    ELSE {query_log}

(* reply.send({ results, total, query, weights }) *)
RecallReply(agentId, queryText, types, limit, include_related, weights, results, cut, embedOk) ==
    [op |-> "POST /recall", agent |-> agentId, code |-> 200,
     embedded |-> provider /\ embedOk,
     query |-> queryText, types |-> types, limit |-> limit,
     include_related |-> include_related, weights |-> weights,
     results |-> results, total |-> Len(results), cut |-> cut]

(* POST /api/v1/recall *)
Recall(agentId, queryText, types, limit, include_related, weights, embedOk) ==
    \E all \in AllResults(1, agentId, queryText, embedText(queryText, embedOk), types, limit) :
    \E scored \in {[i \in 1..Len(all) |-> Scored(all[i], weights)] \o <<>>} :
    \E sorted \in {SortByScore(scored)} :
    \E top \in {SubSeq(sorted, 1, Min(limit, Len(sorted)))} :
        LET results == Expand(top, include_related, agentId)
            hit == {top[i].id : i \in 1..Len(top)}
            cut == {sorted[i] : i \in (Len(top) + 1)..Len(sorted)}
        IN  /\ \A r \in rows : r.id \in hit => r.count < MaxCount
            /\ rows' = {IF r.id \in hit
                        THEN Touch([r EXCEPT !.count = @ + 1, !.accessed = now])
                        ELSE r : r \in rows}
            /\ resp' = RecallReply(agentId, queryText, types, limit, include_related,
                                    weights, results, cut, embedOk)
            /\ query_log' \in onResponse("/api/v1/recall", "POST", agentId, queryText, 200)
            /\ UNCHANGED <<now, provider, nextId, policies, edges, nextEdge, sessions, recalls, agents, ledger, schema, inflight>>

----------------------------------------------------------------------------
(* Semantic search: routes/search.ts *)

(* types || ['session_message', 'fact', 'decision', 'task', 'event'] *)
SEARCH_TYPES == {"session_message", "fact", "decision", "task", "event"}

(* threshold || 0.3, in hundredths *)
DEFAULT_THRESHOLD == 30

(* Math.min(limit || 20, 100) *)
MaxResults(limit) == Min(IF limit = 0 THEN 20 ELSE limit, 100)

(* The rows one search query selects *)
SearchRows(table, agentId, embedding, threshold) ==
    {r \in rows : /\ r.tbl = table
                  /\ r.agent = agentId
                  /\ r.emb # NoEmb
                  /\ r.status = "active"
                  /\ FracGt(Cosine(r.emb, embedding), threshold)}

(* results after the tables from the k-th on have been searched *)
RECURSIVE SearchResults(_, _, _, _, _, _)
SearchResults(k, agentId, embedding, types, threshold, maxResults) ==
    IF k > Len(RECALL_TABLES) THEN {<<>>}
    ELSE LET table == RECALL_TABLES[k]
             rest == SearchResults(k + 1, agentId, embedding, types, threshold, maxResults)
             found == {[id |-> r.id, type |-> TABLE_TO_TYPE(table),
                        similarity |-> Cosine(r.emb, embedding)] :
                          r \in SearchRows(table, agentId, embedding, threshold)}
         IN  IF TABLE_TO_TYPE(table) \notin types THEN rest
             ELSE {head \o tail :
                     head \in UNION {Ordered(c, maxResults) : c \in {found}}, tail \in rest}

(* results.sort((a, b) => b.similarity - a.similarity): stable, highest first *)
SortBySimilarity(seq) ==
    LET n == Len(seq)
        pos(i) == 1 + Cardinality({j \in 1..n :
                        \/ FracLess(seq[i].similarity, seq[j].similarity)
                        \/ FracEq(seq[i].similarity, seq[j].similarity) /\ j < i})
    IN  [p \in 1..n |-> seq[CHOOSE i \in 1..n : pos(i) = p]]

(* POST /api/v1/search; the updates of the access counts are sent before the *)
(* reply and not awaited                                                     *)
Search(agentId, queryText, types, limit, threshold, embedOk) ==
    /\ IF ~provider
       THEN /\ resp' = [op |-> "POST /search", agent |-> agentId, code |-> 503]
            /\ UNCHANGED rows
       ELSE IF ~embedOk
       THEN /\ resp' = [op |-> "POST /search", agent |-> agentId, code |-> 500]
            /\ UNCHANGED rows
       ELSE \E all \in SearchResults(1, agentId, Embed(queryText), types, threshold,
                                     MaxResults(limit)) :
            \E sorted \in {SortBySimilarity(all)} :
            \E trimmed \in {SubSeq(sorted, 1, Min(MaxResults(limit), Len(sorted)))} :
               LET hit == {trimmed[i].id : i \in 1..Len(trimmed)}
               IN  /\ \A r \in rows : r.id \in hit => r.count < MaxCount
                   /\ rows' = {IF r.id \in hit
                               THEN Touch([r EXCEPT !.count = @ + 1, !.accessed = now])
                               ELSE r : r \in rows}
                   /\ resp' = [op |-> "POST /search", agent |-> agentId, code |-> 200,
                               types |-> types, results |-> trimmed,
                               total |-> Len(trimmed)]
    /\ query_log' \in onResponse("/api/v1/search", "POST", agentId, queryText, resp'.code)
    /\ UNCHANGED <<now, provider, nextId, policies, edges, nextEdge, sessions, recalls, agents, ledger, schema, inflight>>

----------------------------------------------------------------------------
(* Recall handlers running side by side.  A handler first runs its queries    *)
(* (steps 1 to 5, which read no access field), then sends one UPDATE per      *)
(* top-level result (step 6), then replies.  recalls holds every handler      *)
(* started so far: its reply and the ids it has still to bump.                *)
MaxRecalls == 2

(* A step 6 that visits the expanded results only: a variant *)
BumpTargetsOfExpanded(results) ==
    SelectSeq([i \in 1..Len(results) |-> results[i].id] \o <<>>,
              LAMBDA id : \E i \in 1..Len(results) : results[i].id = id /\ results[i].expanded)

(* for (const result of topResults) *)
BumpTargets(results) == [i \in 1..Len(results) |-> results[i].id] \o <<>>

RecallQueries(agentId, queryText, types, limit, include_related, weights, embedOk) ==
    \E all \in AllResults(1, agentId, queryText, embedText(queryText, embedOk), types, limit) :
    \E scored \in {[i \in 1..Len(all) |-> Scored(all[i], weights)] \o <<>>} :
    \E sorted \in {SortByScore(scored)} :
    \E top \in {SubSeq(sorted, 1, Min(limit, Len(sorted)))} :
    \E results \in {Expand(top, include_related, agentId)} :
        /\ Cardinality(recalls) < MaxRecalls
        /\ recalls' = recalls \cup
              {[n |-> Cardinality(recalls) + 1,
                reply |-> RecallReply(agentId, queryText, types, limit, include_related,
                                      weights, results,
                                      {sorted[i] : i \in (Len(top) + 1)..Len(sorted)},
                                      embedOk),
                pending |-> BumpTargets(results),
                done |-> FALSE]}
        /\ UNCHANGED <<now, provider, rows, nextId, policies, edges, nextEdge, sessions, resp, agents, ledger, schema, query_log, inflight>>

(* UPDATE table SET access_count = access_count + 1, last_accessed_at = NOW() *)
(* WHERE id = $1: one statement, the increment is applied to the row as it is *)
RecallBump(h) ==
    /\ h.pending # <<>>
    /\ rows' = {IF r.id = Head(h.pending)
                THEN Touch([r EXCEPT !.count = @ + 1, !.accessed = now])
                ELSE r : r \in rows}
    /\ recalls' = (recalls \ {h}) \cup {[h EXCEPT !.pending = Tail(@)]}
    /\ UNCHANGED <<now, provider, nextId, policies, edges, nextEdge, sessions, resp, agents, ledger, schema, query_log, inflight>>

RecallSend(h) ==
    /\ h.pending = <<>>
    /\ ~h.done
    /\ resp' = h.reply
    /\ recalls' = (recalls \ {h}) \cup {[h EXCEPT !.done = TRUE]}
    /\ query_log' \in onResponse("/api/v1/recall", "POST", h.reply.agent, h.reply.query, h.reply.code)
    /\ UNCHANGED <<now, provider, rows, nextId, policies, edges, nextEdge, sessions, agents, ledger, schema, inflight>>

----------------------------------------------------------------------------
(* The state after boot: the migrations have run, the tables are empty *)

(* decay_policies as seeded, or with rows of their own for the agents *)
PolicyTables == {DefaultPolicies, DefaultPolicies \cup OwnPolicySamples}

Init ==
    /\ now = 0
    /\ provider \in BOOLEAN
    /\ rows = {}
    /\ nextId = 1
    /\ policies \in PolicyTables
    /\ edges = {}
    /\ nextEdge = 1
    /\ sessions = {}
    /\ resp = [op |-> "boot"]
    /\ recalls = {}
    /\ agents = {}
    /\ ledger = {}
    /\ schema = {}
    /\ query_log = <<>>
    /\ inflight = {}

Scopes == Agents \cup {NoAgent}
Tables == MEMORY_TABLES \cup {"projects"}
RowIds == 1..MaxRows

(* The decay engine at work on rows written through the API *)
NextDecay ==
    \/ \E a \in Agents : nextId <= MaxDecayRows /\ PostFact(a, TxtABC, FALSE, FALSE)
    \/ \E a \in Agents : nextId <= MaxDecayRows /\ PostDecision(a, TxtX, TxtY, FALSE, FALSE)
    \/ \E a \in Agents : nextId <= MaxDecayRows /\ PostTask(a, TxtX, FALSE, FALSE)
    \/ \E a \in Agents, at \in {0, now} : nextId <= MaxDecayRows /\ PostEvent(a, TxtX, at, FALSE)
    \/ \E r \in rows : GetById(r.tbl, r.id)
    \/ Tick
    \/ \E scope \in Scopes : SweepManual(scope)
    \/ SweepTicker

InitDecay == Init /\ provider = FALSE

SpecDecay == InitDecay /\ [][NextDecay]_vars

(* Revival of what the sweeps have cooled and archived *)
NextRevive ==
    \/ \E a \in Agents : nextId <= MaxDecayRows /\ PostFact(a, TxtABC, FALSE, FALSE)
    \/ \E a \in Agents, at \in {0, now} : nextId <= MaxDecayRows /\ PostEvent(a, TxtX, at, FALSE)
    \/ Tick
    \/ SweepTicker
    \/ \E t \in {"facts", "events", "projects"}, id \in RowIds : reviveItem(t, id)

SpecRevive == InitDecay /\ [][NextRevive]_vars

-----------------------------------------------------------------------

(* Direct writes of facts among edits, deletions, ingestion and decay *)
FactTexts == {TxtABC, TxtABCDE, TxtPunct}

NextDedup ==
    \/ \E c \in FactTexts : PostFact("A", c, TRUE, TRUE)
    \/ \E r \in rows : r.tbl = "facts" /\ PutFact(r.id, TxtABC, TRUE)
    \/ \E r \in rows : r.tbl = "facts" /\ DeleteById("facts", r.id)
    \/ CreateSession("A")
    \/ \E s \in sessions :
          AddMessage(s.id, TxtX, Extraction(<<TxtABC>>, <<>>, <<>>, <<>>), TRUE, TRUE)
    \/ now < 60 /\ Tick
    \/ SweepManual("A")

InitDedup == Init /\ policies = DefaultPolicies \cup OwnPolicySamples

SpecDedup == InitDedup /\ [][NextDedup]_vars

(* Direct writes of the four structured types, with and without embedder *)
NextDirect ==
    \/ \E a \in Agents : PostFact(a, TxtABC, TRUE, TRUE)
    \/ \E a \in Agents : PostDecision(a, TxtX, TxtY, TRUE, TRUE)
    \/ \E a \in Agents : PostTask(a, TxtX, TRUE, TRUE)
    \/ \E a \in Agents : PostEvent(a, TxtX, now, TRUE)
    \/ \E r \in rows : DeleteById(r.tbl, r.id)

SpecDirect == Init /\ [][NextDirect]_vars

(* The ingestion pipeline among direct writes and edge edits *)
NextIngest ==
    \/ PostFact("A", TxtABC, TRUE, TRUE)
    \/ \E a \in Agents : CreateSession(a)
    \/ \E sid \in 1..MaxSessions, ex \in ExtractionSamples, eo \in BOOLEAN :
          AddMessage(sid, TxtX, ex, eo, eo)
    \/ \E r \in rows :
          /\ r.tbl \in {"facts", "decisions"}
          /\ PostEdge("B", TABLE_TO_TYPE(r.tbl), r.id, "session", 1, "derived_from", 5, Omitted)
    \/ \E e \in edges : DeleteEdge(e.id)

InitIngest == Init /\ policies = DefaultPolicies

SpecIngest == InitIngest /\ [][NextIngest]_vars

(* The edge routes alone: edges need no stored endpoint *)
EdgeTuples ==
    {<<"fact", sid, "decision", 1, relation>> :
        sid \in {1}, relation \in {"relates_to", "blocks"}}

NextEdges ==
    \/ \E a \in Agents, t \in EdgeTuples, weight \in {NoWeight, 0, 5},
          metadata \in {Omitted, "{k:1}"} :
          PostEdge(a, t[1], t[2], t[3], t[4], t[5], weight, metadata)
    \/ \E id \in 1..MaxEdges : DeleteEdge(id)

SpecEdges == InitIngest /\ [][NextEdges]_vars

(* Recall and dedup over rows of two agents, some of them decayed *)
NextRecall ==
    \/ PostFact("A", TxtABC, TRUE, TRUE)
    \/ \E a \in Agents : PostEvent(a, TxtABC, 0, TRUE)
    \/ now < 60 /\ Tick
    \/ \E a \in Agents : SweepManual(a)
    \/ \E a \in Agents, limit \in {1, 20} :
          Recall(a, TxtABC, NoTypes, limit, TRUE, DefaultWeights, TRUE)

InitRecall == Init /\ policies = DefaultPolicies \cup OwnPolicySamples

SpecRecall == InitRecall /\ [][NextRecall]_vars

(* Recall over a store that earlier requests have filled: seven rows of agent *)
(* A in four tables, two of them written while the embedder was failing, and  *)
(* one row of agent B                                                         *)
SeedRows ==
    {NewRow(1, "facts", "A", TxtABC, <<>>, Embed(TxtABC), 0, "post", 0),
     NewRow(2, "facts", "A", TxtABCDE, <<>>, Embed(TxtABCDE), 0, "post", 0),
     NewRow(3, "facts", "A", TxtY, <<>>, Embed(TxtY), 0, "post", 0),
     NewRow(4, "decisions", "A", TxtABC, <<>>, Embed(TxtABC), 0, "post", 0),
     NewRow(5, "tasks", "A", TxtABCD, <<>>, NoEmb, 0, "post", 0),
     NewRow(6, "events", "A", TxtABCD, <<>>, Embed(TxtABCD), 0, "post", 0),
     NewRow(7, "events", "A", TxtX, <<>>, Embed(TxtX), 0, "post", 0),
     NewRow(8, "facts", "B", TxtABC, <<>>, Embed(TxtABC), 0, "post", 0),
     NewRow(9, "tasks", "A", TxtY, <<>>, NoEmb, 0, "post", 0)}

InitSeeded ==
    /\ now = 0
    /\ provider = TRUE
    /\ rows = SeedRows
    /\ nextId = 10
    /\ policies = DefaultPolicies
    /\ edges = {}
    /\ nextEdge = 1
    /\ sessions = {}
    /\ resp = [op |-> "boot"]
    /\ recalls = {}
    /\ agents = {}
    /\ ledger = {}
    /\ schema = {}
    /\ query_log = <<>>
    /\ inflight = {}

KeywordWeights == [semantic |-> 2, keyword |-> 7, recency |-> 1]

SeedLinks ==
    {<<"A", "fact", 1, "decision", 4>>, <<"A", "fact", 3, "fact", 8>>,
     <<"B", "fact", 8, "fact", 1>>}

NextSeeded ==
    \/ now < 60 /\ Tick
    \/ \E l \in SeedLinks :
          PostEdge(l[1], l[2], l[3], l[4], l[5], "relates_to", NoWeight, Omitted)
    \/ \E limit \in {2, 20}, types \in {NoTypes, TypesList({"fact", "event"})},
          include_related \in BOOLEAN, weights \in {DefaultWeights, KeywordWeights},
          embedOk \in BOOLEAN :
          Recall("A", TxtABC, types, limit, include_related, weights, embedOk)

SpecSeeded == InitSeeded /\ [][NextSeeded]_vars

(* Recall and search of two agents over the same store, with edges between *)
(* rows of different agents                                                *)
NextOwners ==
    \/ now < 60 /\ Tick
    \/ \E l \in SeedLinks :
          PostEdge(l[1], l[2], l[3], l[4], l[5], "relates_to", NoWeight, Omitted)
    \/ \E a \in Agents, types \in {NoTypes, TypesList({"fact", "event"})} :
          Recall(a, TxtABC, types, 20, TRUE, DefaultWeights, TRUE)
    \/ \E a \in Agents, types \in {SEARCH_TYPES, {"fact"}}, embedOk \in BOOLEAN :
          Search(a, TxtABC, types, 0, DEFAULT_THRESHOLD, embedOk)

SpecOwners == InitSeeded /\ [][NextOwners]_vars

(* Sessions: start, messages, end *)
NextSessions ==
    \/ now < 60 /\ Tick
    \/ \E a \in Agents : CreateSession(a)
    \/ \E sid \in 1..(MaxSessions + 1), ok \in BOOLEAN :
          AddMessage(sid, TxtX, NoExtraction, ok, ok)
    \/ \E sid \in 1..(MaxSessions + 1), summaryOk \in BOOLEAN : EndSession(sid, summaryOk)
    \/ \E sid \in 1..(MaxSessions + 1) : GetSession(sid)

SpecSessions == InitIngest /\ [][NextSessions]_vars

(* Writes with an embedder that is absent, works or fails per request *)
NextWrites ==
    \/ \E content \in {TxtABC, TxtX}, ok \in BOOLEAN : PostFact("A", content, ok, ok)
    \/ \E ok \in BOOLEAN : PostDecision("A", TxtABC, TxtY, ok, ok)
    \/ \E ok \in BOOLEAN : PostTask("A", TxtABC, ok, ok)
    \/ \E ok \in BOOLEAN : PostEvent("A", TxtABC, now, ok)
    \/ \E ok \in BOOLEAN : PostProject("A", TxtABC, ok)
    \/ CreateSession("A")
    \/ \E ex \in ExtractionSamples, ok \in BOOLEAN, itemsOk \in BOOLEAN :
          AddMessage(1, TxtX, ex, ok, itemsOk)

SpecWrites == InitIngest /\ [][NextWrites]_vars

(* Recall with an embedder that is absent or fails, over rows some of which *)
(* have no embedding                                                        *)
InitEmbedder ==
    /\ now = 0
    /\ provider \in BOOLEAN
    /\ rows = SeedRows
    /\ nextId = 10
    /\ policies = DefaultPolicies
    /\ edges = {}
    /\ nextEdge = 1
    /\ sessions = {}
    /\ resp = [op |-> "boot"]
    /\ recalls = {}
    /\ agents = {}
    /\ ledger = {}
    /\ schema = {}
    /\ query_log = <<>>
    /\ inflight = {}

NextEmbedder ==
    \/ now < 60 /\ Tick
    \/ \E queryText \in {TxtABC, TxtY}, limit \in {1, 20}, embedOk \in BOOLEAN :
          Recall("A", queryText, NoTypes, limit, TRUE, DefaultWeights, embedOk)

SpecEmbedder == InitEmbedder /\ [][NextEmbedder]_vars

(* Recall with and without a types list *)
TypesSamples ==
    {NoTypes, TypesList({}), TypesList({"fact"}), TypesList({"decision", "event"}),
     TypesList({"session_message"})}

NextTypes ==
    \/ now < 60 /\ Tick
    \/ \E types \in TypesSamples, limit \in {2, 20} :
          Recall("A", TxtABC, types, limit, TRUE, DefaultWeights, TRUE)

SpecTypes == InitSeeded /\ [][NextTypes]_vars

(* Recall handlers side by side over the same store *)
NextAccess ==
    \/ now < 30 /\ Tick
    \/ PostEdge("A", "fact", 1, "task", 9, "relates_to", NoWeight, Omitted)
    \/ \E limit \in {2, 20} :
          RecallQueries("A", TxtABC, NoTypes, limit, TRUE, DefaultWeights, TRUE)
    \/ \E h \in recalls : RecallBump(h)
    \/ \E h \in recalls : RecallSend(h)

SpecAccess == InitSeeded /\ [][NextAccess]_vars

----------------------------------------------------------------------------
(* Properties of the decay engine, checked under SpecDecay *)

Sweeping == resp'.op = "sweep"

(* The row a row has become in the next state *)
After(r) == CHOOSE q \in rows' : q.id = r.id

LeftActive(r) == r.status = "active" /\ After(r).status # "active"

(* The condition of the active -> cooling transition, as documented *)
Stale(r, ttl_days, min_accesses) ==
    /\ ttl_days # NoTtl
    /\ r.count < min_accesses
    /\ \/ r.accessed = Never /\ now - r.created > ttl_days
       \/ r.accessed # Never /\ now - r.accessed > ttl_days

(* The policy the sweep has resolved for the row *)
SweptPolicy(r) == PolicyLookup(TABLE_TO_TYPE(r.tbl), resp'.agent)

Fresh(r) == r.created = now /\ r.accessed \in {Never, now}

(* C2: a sweep moves an active item it covers out of active exactly when  *)
(* its access_count is below min_accesses and it was never accessed and   *)
(* is older than ttl_days, or was last accessed more than ttl_days ago;   *)
(* the count of the response is the number of such items; and a sweep     *)
(* over items all created just now reports 0 cooled and 0 archived.       *)
C2_CoolingCondition ==
    [][Sweeping =>
        /\ \A r \in rows :
              (r.status = "active" /\ InScope(r, resp'.agent)) =>
                 (LeftActive(r) <=>
                     Stale(r, SweptPolicy(r).ttl_days, SweptPolicy(r).min_accesses))
        /\ resp'.transitioned_to_cooling =
              Cardinality({r \in rows : LeftActive(r)})
        /\ (\A r \in rows : InScope(r, resp'.agent) => Fresh(r)) =>
              /\ resp'.transitioned_to_cooling = 0
              /\ resp'.transitioned_to_archived = 0
    ]_vars

(* A sweep has cooled an item and has spared an old item that was accessed *)
C2_Witness ==
    /\ resp.op = "sweep"
    /\ resp.cooled # {}
    /\ \E r \in rows : /\ r.status = "active"
                       /\ InScope(r, resp.agent)
                       /\ r.count >= 1
                       /\ r.created < now - 30

(* C3: a sweep archives an item only when it has been cooling for more    *)
(* than 30 days, so an item active when the sweep starts is not archived  *)
(* by that sweep.                                                         *)
C3_ArchiveAfterThirtyDaysCooling ==
    [][Sweeping =>
        \A r \in rows :
            After(r).status = "archived" /\ r.status # "archived" =>
                /\ r.status = "cooling"
                /\ now - r.cooledAt > ARCHIVE_DAYS
    ]_vars

(* The policy the documentation resolves for an item: the row of the      *)
(* item's agent when there is one, the global row otherwise               *)
DocumentedPolicy(r) == PolicyLookup(TABLE_TO_TYPE(r.tbl), r.agent)

(* C4: in every sweep the fate of an active item of agent A is decided by *)
(* A's own policy row when it exists and by the global row otherwise.     *)
C4_OwnPolicyDecides ==
    [][Sweeping =>
        \A r \in rows :
            (r.status = "active" /\ InScope(r, resp'.agent)) =>
               (LeftActive(r) <=>
                   Stale(r, DocumentedPolicy(r).ttl_days,
                            DocumentedPolicy(r).min_accesses))
    ]_vars

(* C5: with the seeded policies alone, no sweep changes the decay_status  *)
(* of a decision or of a task.                                            *)
C5_DecisionsAndTasksStay ==
    [][(Sweeping /\ policies = DefaultPolicies) =>
        \A r \in rows :
            r.tbl \in {"decisions", "tasks"} => After(r).status = r.status
    ]_vars

(* Under the seeded policies a sweep has cooled something while a decision *)
(* and a task, 60 days old and never read, are still active               *)
C5_Witness ==
    /\ resp.op = "sweep"
    /\ policies = DefaultPolicies
    /\ resp.cooled # {}
    /\ \E r \in rows : /\ r.tbl \in {"decisions", "tasks"}
                       /\ r.count = 0
                       /\ r.created <= now - 60
                       /\ r.status = "active"

----------------------------------------------------------------------------
(* Properties of dedup on direct POST, checked under SpecDedup *)

PostingFact == resp'.op = "POST /facts"

(* The facts a direct POST of the agent created with the content posted now, *)
(* still stored and active                                                  *)
EarlierPosts ==
    {F \in rows : /\ F.tbl = "facts"
                  /\ F.via = "post"
                  /\ F.agent = resp'.agent
                  /\ F.posted = resp'.content
                  /\ F.status = "active"}

(* The active facts of the agent whose content has the trigrams of the text *)
SameTrigrams(agentId, text) ==
    {G \in rows : /\ G.tbl = "facts"
                  /\ G.agent = agentId
                  /\ G.status = "active"
                  /\ FracEq(Similarity(G.content, text), <<1, 1>>)}

(* C7 as stated: once a POST of a fact returned 201 with id F, every later *)
(* POST by the agent of the same content, while F exists and is active,    *)
(* returns 409 with existing_id = F and inserts nothing.                   *)
C7_AsStated ==
    [][PostingFact =>
        \A F \in EarlierPosts :
            /\ resp'.code = 409
            /\ resp'.existing_id = F.id
            /\ rows' = rows
    ]_vars

(* C7, amended: while F exists, is active and still holds the content it   *)
(* was posted with, and that content has at least one word character, a    *)
(* later POST by the agent of the same content returns 409 and inserts     *)
(* nothing; existing_id is an active fact of the agent with the trigrams   *)
(* of the content, and is F when F is the only such fact.                  *)
C7_Amended ==
    [][PostingFact =>
        \A F \in EarlierPosts :
            (F.content = resp'.content /\ Trigrams(resp'.content) # {}) =>
                /\ resp'.code = 409
                /\ rows' = rows
                /\ resp'.existing_id \in
                      {G.id : G \in SameTrigrams(resp'.agent, resp'.content)}
                /\ SameTrigrams(resp'.agent, resp'.content) = {F} =>
                      resp'.existing_id = F.id
    ]_vars

(* A repeated POST was answered 409 with the id of the first insert after  *)
(* the pipeline had stored a fact of the same content in between           *)
C7_Witness ==
    /\ resp.op = "POST /facts"
    /\ resp.code = 409
    /\ \E F \in rows : /\ F.id = resp.existing_id
                       /\ F.via = "post"
                       /\ F.tbl = "facts"
                       /\ F.posted = resp.content
                       /\ F.content = resp.content
    /\ \E G \in rows : /\ G.via = "ingest"
                       /\ G.tbl = "facts"
                       /\ G.content = resp.content
                       /\ G.status = "active"

(* The active facts of the requesting agent *)
ActiveFacts ==
    {r \in rows : r.tbl = "facts" /\ r.agent = resp'.agent /\ r.status = "active"}

SyntacticDuplicates ==
    {r \in ActiveFacts : FracGe(Similarity(r.content, resp'.content), 60)}

SemanticDuplicates ==
    {r \in ActiveFacts : /\ provider
                         /\ r.emb # NoEmb
                         /\ FracGe(Cosine(r.emb, Embed(resp'.content)), 92)}

(* C9: the dedup of a POST returns a match exactly when some active row of *)
(* the agent has trigram similarity >= 0.6 or, failing that and with an    *)
(* embedder, cosine similarity >= 0.92; equality with the threshold counts *)
(* as a duplicate.                                                         *)
C9_ThresholdsInclusive ==
    [][PostingFact =>
        /\ resp'.code = 409 <=> (SyntacticDuplicates # {} \/ SemanticDuplicates # {})
        /\ (resp'.code = 409 /\ SyntacticDuplicates # {}) =>
              resp'.existing_id \in {r.id : r \in SyntacticDuplicates}
        /\ (resp'.code = 409 /\ SyntacticDuplicates = {}) =>
              resp'.existing_id \in {r.id : r \in SemanticDuplicates}
    ]_vars

(* The content dedup is documented to compare: "{title}: {decision}" for *)
(* a decision                                                            *)
CanonicalOf(r) == IF r.tbl = "decisions" THEN Canonical(r.content, r.body) ELSE r.content

PostedTable ==
    CASE resp'.op = "POST /facts" -> "facts"
      [] resp'.op = "POST /decisions" -> "decisions"
      [] resp'.op = "POST /tasks" -> "tasks"
      [] resp'.op = "POST /events" -> "events"
      [] OTHER -> "none"

(* C8: a direct POST of a fact, decision, task or event whose canonical   *)
(* content equals that of an active row of the agent in the same table    *)
(* returns 409 and inserts nothing, with or without an embedder.          *)
C8_DirectPostDedups ==
    [][(PostedTable # "none" /\
        \E r \in rows : /\ r.tbl = PostedTable
                        /\ r.agent = resp'.agent
                        /\ r.status = "active"
                        /\ CanonicalOf(r) = resp'.content)
        => (resp'.code = 409 /\ rows' = rows)
    ]_vars

----------------------------------------------------------------------------
(* Properties of ingestion, checked under SpecIngest *)

Ingested == resp'.op = "POST /messages" /\ resp'.code = 201

(* The item rows the request has stored *)
StoredItems == {r \in rows' \ rows : r.tbl # "session_messages"}

StoredOf(table) == {r \in StoredItems : r.tbl = table}

SessionAgent(sid) == (CHOOSE s \in sessions : s.id = sid).agent

HasSessionEdge(r, relation) ==
    \E e \in edges' : /\ e.source_type = TABLE_TO_TYPE(r.tbl)
                      /\ e.source_id = r.id
                      /\ e.target_type = "session"
                      /\ e.target_id = resp'.session
                      /\ e.relation = relation
                      /\ e.agent = SessionAgent(resp'.session)

----------------------------------------------------------------------------
(* Properties of recall, checked under SpecRecall *)

(* The rows a query of the request's agent may return: active and its own *)
ActiveOwn == {r \in rows : r.agent = resp'.agent /\ r.status = "active"}

(* C1: every top-level result of a recall, and every match a dedup of a   *)
(* direct POST reports, is a row that was active and belonged to the      *)
(* request's agent when the request ran.                                  *)
C1_OnlyActiveOwnRows ==
    [][/\ resp'.op = "POST /recall" =>
            \A i \in 1..Len(resp'.results) :
                resp'.results[i].id \in {r.id : r \in ActiveOwn}
       /\ (resp'.op = "POST /facts" /\ resp'.code = 409) =>
            resp'.existing_id \in {r.id : r \in ActiveOwn}
    ]_vars

(* A recall has returned a row while a cooling or archived row of the     *)
(* agent and a row of the other agent, both matching the query, stayed out *)
C1_Witness ==
    /\ resp.op = "POST /recall"
    /\ Len(resp.results) >= 1
    /\ \E r \in rows : /\ r.agent = resp.agent
                       /\ r.status # "active"
                       /\ FracGt(Similarity(r.content, resp.query), 10)
                       /\ \A i \in 1..Len(resp.results) : resp.results[i].id # r.id
    /\ \E r \in rows : /\ r.agent # resp.agent
                       /\ r.status = "active"
                       /\ FracGt(Similarity(r.content, resp.query), 10)

----------------------------------------------------------------------------
(* C11: after any sequence of edge POSTs and deletes there is at most one     *)
(* edge row per (source_type, source_id, target_type, target_id, relation);   *)
(* a POST whose 5-tuple already exists answers 201 with the id of the         *)
(* existing row, creates no row, and leaves that row with the weight and      *)
(* metadata of this POST, 1.0 and {} when they were omitted.                  *)
TupleOf(e) == <<e.source_type, e.source_id, e.target_type, e.target_id, e.relation>>

OneRowPerTuple == \A e, f \in edges : TupleOf(e) = TupleOf(f) => e = f

PostedWeight == IF resp'.asked_weight = NoWeight THEN 10 ELSE resp'.asked_weight

PostedMetadata == IF resp'.asked_metadata = Omitted THEN "{}" ELSE resp'.asked_metadata

C11_EdgeUpsert ==
    /\ []OneRowPerTuple
    /\ [][resp'.op = "POST /edges" =>
            \A e \in edges :
               TupleOf(e) = TupleOf(resp'.edge) =>
                  /\ resp'.code = 201
                  /\ resp'.id = e.id
                  /\ {x.id : x \in edges'} = {x.id : x \in edges}
                  /\ \E x \in edges' :
                        /\ x.id = e.id
                        /\ TupleOf(x) = TupleOf(e)
                        /\ x.weight = PostedWeight
                        /\ x.metadata = PostedMetadata]_vars

(* A POST without weight and metadata has met the 5-tuple stored by the other *)
(* agent: the row keeps its agent and now has weight 1.0 and metadata {}      *)
C11_Witness ==
    /\ resp.op = "POST /edges"
    /\ resp.asked_weight = NoWeight
    /\ resp.asked_metadata = Omitted
    /\ \E e \in edges : e.id = resp.id /\ e.agent # resp.agent /\ e.weight = 10 /\ e.metadata = "{}"

----------------------------------------------------------------------------
(* C12: the score of every top-level recall result is semantic_weight *       *)
(* semantic + keyword_weight * keyword + recency_weight * recency + 0.1 *     *)
(* graph_boost over its own signals, an absent signal counting 0, with the    *)
(* weights of the request, and recency = max(0, 1 - age / 90 days); the       *)
(* results are in non-increasing order of score, and no candidate cut by the  *)
(* limit has a higher score than a result that was kept.                      *)
SignalOrZero(signals, name) ==
    IF name \in DOMAIN signals /\ signals[name] # NoSignal THEN signals[name] ELSE <<0, 1>>

WeightedSum(signals, weights) ==
    FracAdd(FracAdd(Weighted(SignalOrZero(signals, "semantic"), weights.semantic),
                    Weighted(SignalOrZero(signals, "keyword"), weights.keyword)),
            FracAdd(Weighted(SignalOrZero(signals, "recency"), weights.recency),
                    Weighted(SignalOrZero(signals, "graph_boost"), 1)))

AgeOf(id) == now - (CHOOSE r \in rows : r.id = id).created

DocumentedRecency(id) ==
    IF AgeOf(id) >= 90 THEN <<0, 1>> ELSE Norm(<<90 - AgeOf(id), 90>>)

C12_ScoreAndOrder ==
    [][resp'.op = "POST /recall" =>
         LET res == resp'.results
         IN  /\ \A i \in 1..Len(res) :
                   /\ FracEq(res[i].score, WeightedSum(res[i].signals, resp'.weights))
                   /\ FracEq(res[i].signals.recency, DocumentedRecency(res[i].id))
             /\ \A i, j \in 1..Len(res) : i < j => ~FracLess(res[i].score, res[j].score)
             /\ \A c \in resp'.cut : \A i \in 1..Len(res) :
                   ~FracLess(res[i].score, c.score)]_vars

(* A recall with weights of its own, sixty days after the rows were written, *)
(* returned two results of different scores and cut a candidate              *)
C12_Witness ==
    /\ resp.op = "POST /recall"
    /\ resp.weights # DefaultWeights
    /\ now = 60
    /\ resp.total = 2
    /\ FracLess(resp.results[2].score, resp.results[1].score)
    /\ resp.cut # {}
    /\ resp.results[1].signals.keyword # NoSignal
    /\ resp.results[2].signals.semantic # NoSignal

----------------------------------------------------------------------------
(* C13: a recall response has at most limit top-level results; only the first *)
(* five of them are expanded: a result at position 6 or later carries no      *)
(* related list, a related entry has no related list of its own, and with     *)
(* include_related = false no result carries a related list.                  *)
CarriesRelated(result) == result.expanded

C13_LimitAndExpansion ==
    [][resp'.op = "POST /recall" =>
         LET res == resp'.results
         IN  /\ Len(res) <= resp'.limit
             /\ resp'.total = Len(res)
             /\ \A i \in 1..Len(res) :
                   /\ i >= 6 => ~CarriesRelated(res[i])
                   /\ ~resp'.include_related => ~CarriesRelated(res[i])
                   /\ ~CarriesRelated(res[i]) => res[i].related = {}
                   /\ \A x \in res[i].related :
                         "related" \notin DOMAIN x /\ "expanded" \notin DOMAIN x]_vars

(* Seven results came back with include_related: the first carries a related *)
(* entry, the seventh is the source of an edge of the agent and carries none *)
C13_Witness ==
    /\ resp.op = "POST /recall"
    /\ resp.include_related
    /\ resp.total = 7
    /\ resp.results[1].related # {}
    /\ ~resp.results[7].expanded
    /\ \E e \in edges : /\ e.agent = resp.agent
                         /\ e.source_id = resp.results[7].id
                         /\ e.source_type = resp.results[7].type

----------------------------------------------------------------------------
(* C14: each recall raises access_count by exactly 1 and sets                 *)
(* last_accessed_at for every item it returns as a top-level result and       *)
(* changes the access fields of no other item, related items and candidates   *)
(* cut by the limit included; the increment is atomic, so once n recalls that *)
(* each returned item x have completed, side by side or one after the other,  *)
(* x.access_count has grown by exactly n.                                     *)
Returned(h) == {h.reply.results[i].id : i \in 1..Len(h.reply.results)}

StillToBump(h) == {h.pending[i] : i \in 1..Len(h.pending)}

Completed == {h \in recalls : h.done}

C14_AccessCounted ==
    \A r \in rows :
       /\ r.count = Cardinality({h \in recalls : r.id \in Returned(h) \ StillToBump(h)})
       /\ (\A h \in recalls : h.done) =>
              r.count = Cardinality({h \in Completed : r.id \in Returned(h)})
       /\ r.count = 0 => r.accessed = Never
       /\ r.count > 0 => r.accessed \in 0..now

(* Two handlers are both in the middle of their updates and both have bumped *)
(* fact 1, whose count is 2; the task related to fact 1 and the candidates   *)
(* one of them cut are untouched                                             *)
C14_Witness ==
    \E g, h \in recalls :
       /\ g.n # h.n
       /\ g.pending # <<>> /\ h.pending # <<>>
       /\ 1 \in (Returned(g) \ StillToBump(g)) \cap (Returned(h) \ StillToBump(h))
       /\ (CHOOSE r \in rows : r.id = 1).count = 2
       /\ g.reply.cut # {}
       /\ \E x \in g.reply.results[1].related : x.id = 9
       /\ (CHOOSE r \in rows : r.id = 9).count = 0

----------------------------------------------------------------------------
(* C15: every item in a recall response for agent A, the top-level results    *)
(* and the items attached under related, has agent_id = A, whatever edges any *)
(* agent has created; every search result for agent A belongs to A.           *)
OwnerOf(id) == (CHOOSE r \in rows : r.id = id).agent

C15_OnlyOwnItems ==
    [][/\ resp'.op = "POST /recall" =>
             \A i \in 1..Len(resp'.results) :
                /\ OwnerOf(resp'.results[i].id) = resp'.agent
                /\ \A x \in resp'.results[i].related : OwnerOf(x.id) = resp'.agent
       /\ resp'.op = "POST /search" /\ resp'.code = 200 =>
             \A i \in 1..Len(resp'.results) :
                OwnerOf(resp'.results[i].id) = resp'.agent]_vars

----------------------------------------------------------------------------
(* C16: when recall is called with a types list, only the tables of the       *)
(* listed types are queried and every top-level result has a type of the      *)
(* list; without a types list all five tables are candidates.                 *)
Candidates(response) == {response.results[i] : i \in 1..Len(response.results)} \cup response.cut

(* The rows of agentId in table that the lexical arm matches *)
Matching(table, agentId, queryText) ==
    {r \in rows : /\ r.tbl = table /\ r.agent = agentId /\ r.status = "active"
                  /\ FracGt(Similarity(r.content, queryText), 10)}

(* Every table is searched: with a limit no arm reaches, each matching row *)
(* of each of the five tables is a candidate                               *)
AllFiveSearched(response) ==
    \A k \in 1..5 :
       LET table == <<"session_messages", "facts", "decisions", "tasks", "events">>[k]
       IN  Cardinality(Matching(table, response.agent, response.query)) <= response.limit
           => \A r \in Matching(table, response.agent, response.query) :
                 \E c \in Candidates(response) : c.id = r.id

OnlyListed(response) == \A c \in Candidates(response) : c.type \in response.types.list

(* The claim as it is written: any list, the empty one too, restricts *)
C16_AsStated ==
    [][resp'.op = "POST /recall" =>
         IF resp'.types.given THEN OnlyListed(resp') ELSE AllFiveSearched(resp')]_vars

(* The claim for a list that names at least one type; an empty list is *)
(* treated as no list                                                 *)
C16_TypesFilter ==
    [][resp'.op = "POST /recall" =>
         IF resp'.types.given /\ resp'.types.list # {}
         THEN OnlyListed(resp')
         ELSE AllFiveSearched(resp')]_vars

(* A recall for decisions and events returned both while facts and a task of *)
(* the agent match the query                                                 *)
C16_Witness ==
    /\ resp.op = "POST /recall"
    /\ resp.types = TypesList({"decision", "event"})
    /\ {resp.results[i].type : i \in 1..Len(resp.results)} = {"decision", "event"}
    /\ Matching("facts", resp.agent, resp.query) # {}
    /\ Matching("tasks", resp.agent, resp.query) # {}

----------------------------------------------------------------------------
(* C17: an active item whose embedding is null never carries a semantic       *)
(* signal in a recall response, yet it is a recall candidate through the      *)
(* lexical arm whenever its trigram similarity to the query exceeds 0.1 and   *)
(* it is within the arm's limit; when the query cannot be embedded (no        *)
(* embedder or a failing one) recall still answers 200 with a well-formed     *)
(* response in which no result has a semantic signal.                         *)
Unembedded == {r \in rows : r.emb = <<>> /\ r.status = "active"}

(* r is among the first limit rows of the lexical arm of its table *)
WithinArmLimit(r, response) ==
    /\ r \in Matching(r.tbl, response.agent, response.query)
    /\ Cardinality({x \in Matching(r.tbl, response.agent, response.query) :
                      ~FracLess(Similarity(x.content, response.query),
                                Similarity(r.content, response.query))}) <= response.limit

WellFormed(response) ==
    /\ response.code = 200
    /\ response.total = Len(response.results)
    /\ \A i \in 1..Len(response.results) :
          /\ response.results[i].signals.recency # <<>>
          /\ response.results[i].score[2] > 0

C17_NullEmbeddings ==
    [][resp'.op = "POST /recall" =>
         /\ \A c \in Candidates(resp') :
               (\E r \in Unembedded : r.id = c.id) => c.signals.semantic = <<>>
         /\ \A r \in Unembedded :
               WithinArmLimit(r, resp') => \E c \in Candidates(resp') :
                  c.id = r.id /\ c.signals.keyword = Similarity(r.content, resp'.query)
         /\ ~resp'.embedded =>
               /\ WellFormed(resp')
               /\ \A c \in Candidates(resp') : c.signals.semantic = <<>>]_vars

(* The embedder failed on the query: the response holds the task that has no *)
(* embedding and a fact that has one, both by their keyword signal alone     *)
C17_Witness ==
    /\ resp.op = "POST /recall"
    /\ provider /\ ~resp.embedded
    /\ resp.total >= 2
    /\ \E i, j \in 1..resp.total :
          /\ resp.results[i].id = 5 /\ resp.results[j].id = 1
          /\ resp.results[i].signals.semantic = <<>>
          /\ resp.results[j].signals.semantic = <<>>
          /\ resp.results[i].signals.keyword # <<>>

----------------------------------------------------------------------------
(* C18: in addMessage, in the storing of extracted items and in the direct    *)
(* POST of a fact, decision, task, event or project, an absent or failing     *)
(* embedder never changes the outcome of the write: the row is inserted and   *)
(* the status is the one a working embedder gives, the only difference being  *)
(* that the row's embedding is null.                                          *)
DirectPost ==
    resp'.op \in {"POST /facts", "POST /decisions", "POST /tasks", "POST /events",
                  "POST /projects"}

(* What the duplicate check finds for the request when its embedder works *)
WorkingMatches ==
    IF resp'.op \in {"POST /facts", "POST /decisions", "POST /tasks"}
    THEN checkDuplicate(PostedTable, resp'.agent, resp'.content, TRUE)
    ELSE {NoMatch}

SlugTaken ==
    /\ resp'.op = "POST /projects"
    /\ \E r \in rows : r.tbl = "projects" /\ r.agent = resp'.agent
                        /\ r.content = resp'.content

(* The statuses the request gets when its embedder works *)
WorkingStatus ==
    IF SlugTaken THEN {500}
    ELSE {IF m = NoMatch THEN 201 ELSE 409 : m \in WorkingMatches}

(* The row of a 201 is stored, with the embedding of its text or none, and *)
(* with none when there is no embedder                                    *)
InsertedAsAnswered ==
    resp'.code = 201 =>
       \E r \in rows' \ rows :
          /\ r.id = resp'.id
          /\ r.emb \in {<<>>, Embed(resp'.content)}
          /\ ~provider => r.emb = <<>>

MessageStored ==
    (resp'.op = "POST /messages" /\ \E s \in sessions : s.id = resp'.session) =>
       /\ resp'.code = 201
       /\ {r.id : r \in rows' \ rows} =
             {resp'.message} \cup resp'.factIds \cup resp'.decisionIds
                 \cup resp'.taskIds \cup resp'.eventIds
       /\ Cardinality(rows' \ rows) = 1 + Len(ItemSeq(resp'.asked))
       /\ ~provider => \A r \in rows' \ rows : r.emb = <<>>

(* The claim as it is written *)
C18_AsStated ==
    [][/\ DirectPost => resp'.code \in WorkingStatus /\ InsertedAsAnswered
       /\ MessageStored]_vars

(* The claim with the one case in which the status differs: a direct POST of *)
(* a fact, decision or task that only the semantic stage of the duplicate    *)
(* check would match is answered 201 and inserted when the embedder is       *)
(* absent or fails, and 409 when it works                                    *)
C18_EmbedderOptional ==
    [][/\ DirectPost =>
             /\ \/ resp'.code \in WorkingStatus
                \/ /\ resp'.code = 201
                   /\ \A m \in WorkingMatches : m.type = "semantic"
             /\ InsertedAsAnswered
       /\ MessageStored]_vars

(* With an embedder that failed on this request, a fact was stored without   *)
(* embedding next to a fact that has one, and the answer was 201             *)
C18_Witness ==
    /\ resp.op = "POST /facts"
    /\ resp.code = 201
    /\ provider
    /\ \E r \in rows : r.id = resp.id /\ r.emb = <<>>
    /\ \E r \in rows : r.tbl = "facts" /\ r.emb # <<>>

----------------------------------------------------------------------------
(* C19: once an end request for a session has completed successfully, every   *)
(* later end request for that session returns 400 and leaves the session's    *)
(* ended_at and summary unchanged; an end request for an unknown session      *)
(* returns 404 and changes nothing.                                           *)
Ending == resp'.op = "POST /end"

Known(sessionId) == \E s \in sessions : s.id = sessionId

C19_EndOnce ==
    [][Ending =>
         /\ ~Known(resp'.session) =>
               resp'.code = 404 /\ sessions' = sessions /\ rows' = rows /\ edges' = edges
         /\ \A s \in sessions :
               s.id = resp'.session =>
                  /\ s.ended_at # -1 => resp'.code = 400 /\ sessions' = sessions
                  /\ s.ended_at = -1 =>
                        /\ resp'.code = 200
                        /\ \E t \in sessions' : t.id = s.id /\ t.ended_at = now]_vars

(* A second end request, thirty days or more after the first, was answered *)
(* 400; the session has the end time and the summary of the first          *)
C19_Witness ==
    /\ resp.op = "POST /end"
    /\ resp.code = 400
    /\ \E s \in sessions : /\ s.id = resp.session
                            /\ s.ended_at # -1 /\ s.ended_at < now
                            /\ s.summary # {}

----------------------------------------------------------------------------
(* C20: addMessage is accepted only while the session is open: once a session *)
(* has ended no message is added to it, so the set of its messages and its    *)
(* message_count stay fixed from the end on.                                  *)
MessageIds(sessionId) ==
    {r.id : r \in {x \in rows : x.tbl = "session_messages" /\ x.session = sessionId}}

MessageIdsAfter(sessionId) ==
    {r.id : r \in {x \in rows' : x.tbl = "session_messages" /\ x.session = sessionId}}

C20_ClosedSessionsAreFixed ==
    [][\A s \in sessions :
          s.ended_at # -1 =>
             /\ MessageIdsAfter(s.id) = MessageIds(s.id)
             /\ (resp'.op = "POST /messages" /\ resp'.session = s.id) => resp'.code # 201
             /\ (resp'.op = "GET /sessions" /\ resp'.session = s.id) =>
                   resp'.message_count = Cardinality(MessageIds(s.id))]_vars

----------------------------------------------------------------------------
(* Agents (routes/agents.ts).                                              *)
(*                                                                         *)
(* An identifier (a slug, a UUID, the :id of a route) is a sequence of     *)
(* characters, so that the regular expressions of the handlers are         *)
(* computed on it.  A JSON document is the set of its nodes: a node has    *)
(* the path of keys leading to it and a value, "{}" for an object, "null"  *)
(* for null, any other string for a scalar.  The document of a scalar has  *)
(* the one node of path <<>>.                                              *)

MaxAgents == 2

HexChars == {"0", "1", "2", "3", "4", "5", "6", "7", "8", "9",
             "a", "b", "c", "d", "e", "f", "A", "B", "C", "D", "E", "F"}
SlugHead == {"0", "1", "2", "3", "4", "5", "6", "7", "8", "9",
             "a", "b", "c", "d", "e", "f", "g", "h", "i", "j", "k", "l", "m",
             "n", "o", "p", "q", "r", "s", "t", "u", "v", "w", "x", "y", "z"}
SlugTail == SlugHead \cup {"_", "-"}
UuidHyphens == {9, 14, 19, 24}

(* /^[a-z0-9][a-z0-9_-]*$/ *)
ValidSlug(slug) ==
    /\ Len(slug) >= 1
    /\ slug[1] \in SlugHead
    /\ \A i \in 2..Len(slug) : slug[i] \in SlugTail

(* /^[0-9a-f]{8}-[0-9a-f]{4}-[0-9a-f]{4}-[0-9a-f]{4}-[0-9a-f]{12}$/i *)
isUuid(id) ==
    /\ Len(id) = 36
    /\ \A i \in 1..36 : IF i \in UuidHyphens THEN id[i] = "-" ELSE id[i] \in HexChars

(* /^[0-9a-f]{8}-/i *)
isUuidPrefix(id) ==
    /\ Len(id) >= 9
    /\ \A i \in 1..8 : id[i] \in HexChars
    /\ id[9] = "-"

(* The UUID the database generates for the n-th agent row *)
Digit(n) == <<"1", "2", "3", "4", "5", "6", "7", "8", "9">>[n]
Uuid(n) ==
    [i \in 1..36 |-> IF i \in UuidHyphens THEN "-"
                     ELSE IF i = 15 THEN "4"
                     ELSE IF i = 36 THEN Digit(n) ELSE "0"] \o <<>>

(* An object's top-level keys; the jsonb operators of the core-memory patch *)
IsObject(doc) == \A e \in doc : Len(e.path) >= 1
TopKeys(doc) == {e.path[1] : e \in doc}
jsonb_concat(left, right) ==
    {e \in left : e.path[1] \notin TopKeys(right)} \cup right
jsonb_strip_nulls(doc) == {e \in doc : e.val # "null"}

NoAgentRow == [id |-> <<>>, slug |-> <<>>, display_name |-> "", description |-> "",
            core_memory |-> {}]

(* The rows a WHERE id = $1 or WHERE slug = $1 selects.  A parameter that  *)
(* is not the text of a uuid makes the comparison with the id column fail. *)
CastFails(byId, id) == byId /\ ~isUuid(id)
AgentsWhere(byId, id) ==
    {a \in agents : IF byId THEN a.id = id ELSE a.slug = id}

AgentError(op, id, code) ==
    [op |-> op, id |-> id, code |-> code, agent |-> NoAgentRow,
     before |-> {}, patch |-> {}]

AgentReply(op, id, code, agent, before, patch) ==
    [op |-> op, id |-> id, code |-> code, agent |-> agent,
     before |-> before, patch |-> patch]

AgentFrame ==
    UNCHANGED <<now, provider, rows, nextId, policies, edges, nextEdge, sessions, recalls, ledger, schema, query_log, inflight>>

(* POST /api/v1/agents *)
PostAgent(slug, display_name, core_memory) ==
    /\ IF slug = <<>> \/ display_name = ""
       THEN /\ resp' = AgentError("POST /agents", slug, 400)
            /\ UNCHANGED agents
       ELSE IF ~ValidSlug(slug)
       THEN /\ resp' = AgentError("POST /agents", slug, 400)
            /\ UNCHANGED agents
       ELSE IF \E a \in agents : a.slug = slug
       THEN /\ resp' = AgentError("POST /agents", slug, 409)
            /\ UNCHANGED agents
       ELSE /\ Cardinality(agents) < MaxAgents
            /\ LET a == [id |-> Uuid(Cardinality(agents) + 1), slug |-> slug,
                         display_name |-> display_name, description |-> "",
                         core_memory |-> core_memory]
               IN  /\ agents' = agents \cup {a}
                   /\ resp' = AgentReply("POST /agents", slug, 201, a, {}, {})
    /\ AgentFrame

(* GET /api/v1/agents/:id *)
GetAgent(id) ==
    /\ IF AgentsWhere(isUuid(id), id) = {}
       THEN resp' = AgentError("GET /agents/:id", id, 404)
       ELSE \E a \in AgentsWhere(isUuid(id), id) :
               resp' = AgentReply("GET /agents/:id", id, 200, a, {}, {})
    /\ UNCHANGED agents
    /\ AgentFrame

(* PATCH /api/v1/agents/:id *)
PatchAgent(id, display_name, description) ==
    /\ IF display_name = Omitted /\ description = Omitted
       THEN /\ resp' = AgentError("PATCH /agents/:id", id, 400)
            /\ UNCHANGED agents
       ELSE IF CastFails(isUuidPrefix(id), id)
       THEN /\ resp' = AgentError("PATCH /agents/:id", id, 500)
            /\ UNCHANGED agents
       ELSE IF AgentsWhere(isUuidPrefix(id), id) = {}
       THEN /\ resp' = AgentError("PATCH /agents/:id", id, 404)
            /\ UNCHANGED agents
       ELSE \E a \in AgentsWhere(isUuidPrefix(id), id) :
               LET b == [a EXCEPT
                           !.display_name = IF display_name # Omitted
                                            THEN display_name ELSE @,
                           !.description = IF description # Omitted
                                           THEN description ELSE @]
               IN  /\ agents' = (agents \ {a}) \cup {b}
                   /\ resp' = AgentReply("PATCH /agents/:id", id, 200, b, {}, {})
    /\ AgentFrame

(* PATCH /api/v1/agents/:id/core-memory *)
PatchCoreMemory(id, patch) ==
    /\ IF ~IsObject(patch)
       THEN /\ resp' = AgentError("PATCH /core-memory", id, 400)
            /\ UNCHANGED agents
       ELSE IF CastFails(isUuidPrefix(id), id)
       THEN /\ resp' = AgentError("PATCH /core-memory", id, 500)
            /\ UNCHANGED agents
       ELSE IF AgentsWhere(isUuidPrefix(id), id) = {}
       THEN /\ resp' = AgentError("PATCH /core-memory", id, 404)
            /\ UNCHANGED agents
       ELSE \E a \in AgentsWhere(isUuidPrefix(id), id) :
               LET b == [a EXCEPT !.core_memory =
                           jsonb_strip_nulls(jsonb_concat(@, patch))]
               IN  /\ agents' = (agents \ {a}) \cup {b}
                   /\ resp' = AgentReply("PATCH /core-memory", id, 200, b,
                                         a.core_memory, patch)
    /\ AgentFrame

(* Sample identifiers and documents *)
SlugPlain == <<"m", "e", "m">>
SlugHexy == <<"d", "e", "a", "d", "b", "e", "e", "f", "-", "x">>

Node(path, val) == [path |-> path, val |-> val]
MemBoth ==
    {Node(<<"k">>, "u"),
     Node(<<"w">>, "{}"), Node(<<"w", "x">>, "u"), Node(<<"w", "y">>, "v")}
CoreSamples == {{}, MemBoth}
PatchSamples ==
    {{Node(<<"k">>, "null")},
     {Node(<<"k">>, "v")},
     {Node(<<"n">>, "u")},
     {Node(<<"w">>, "{}"), Node(<<"w", "x">>, "v")},
     {Node(<<"w">>, "{}"), Node(<<"w", "x">>, "null")},
     {Node(<<"w">>, "u")},
     {Node(<<"k">>, "{}"), Node(<<"k", "x">>, "u")},
     {Node(<<>>, "u")}}

(* One agent and the patches of its core memory *)
NextCoreMemory ==
    \/ \E cm \in CoreSamples : PostAgent(SlugPlain, "n", cm)
    \/ \E id \in {SlugPlain, Uuid(1), Uuid(2)} : GetAgent(id)
    \/ \E id \in {SlugPlain, Uuid(1), Uuid(2)}, patch \in PatchSamples :
          PatchCoreMemory(id, patch)

SpecCoreMemory == Init /\ [][NextCoreMemory]_vars

----------------------------------------------------------------------------
(* C21: PATCH core-memory answers, and stores, the JSON merge-patch of the  *)
(* agent's core memory M with the patch P: a key P gives as null is         *)
(* removed, a key P gives a value takes it, and a key of M that P does not  *)
(* mention persists, also inside an object of which P updates only some     *)
(* members.                                                                 *)
Mentioned(doc, path) == \E e \in doc : e.path = path
IsObjectAt(doc, path) == \E e \in doc : e.path = path /\ e.val = "{}"

Persists(M, P, e) ==
    \/ ~Mentioned(P, <<e.path[1]>>)
    \/ /\ IsObjectAt(P, <<e.path[1]>>)
       /\ IsObjectAt(M, <<e.path[1]>>)
       /\ Len(e.path) = 1 \/ ~Mentioned(P, e.path)

MergePatch(M, P) ==
    {e \in M : Persists(M, P, e)} \cup {e \in P : e.val # "null"}

C21_MergePatch ==
    (resp.op = "PATCH /core-memory" /\ resp.code = 200) =>
        /\ resp.agent.core_memory = MergePatch(resp.before, resp.patch)
        /\ \E a \in agents : /\ a.id = resp.agent.id
                             /\ a.core_memory = resp.agent.core_memory

----------------------------------------------------------------------------
(* Create, read, update and delete of the five memory types by one agent *)
CrudTables == {"facts", "decisions", "tasks", "events", "projects"}

NextCrud ==
    \/ nextId <= MaxDecayRows /\ PostFact("A", TxtABC, TRUE, TRUE)
    \/ nextId <= MaxDecayRows /\ PostDecision("A", TxtX, TxtY, TRUE, TRUE)
    \/ nextId <= MaxDecayRows /\ PostTask("A", TxtABC, TRUE, TRUE)
    \/ nextId <= MaxDecayRows /\ PostEvent("A", TxtX, now, TRUE)
    \/ nextId <= MaxDecayRows /\ PostProject("A", TxtABC, TRUE)
    \/ \E t \in CrudTables, id \in 1..MaxDecayRows : GetById(t, id)
    \/ \E t \in CrudTables, id \in 1..MaxDecayRows : PutById(t, id, TxtY, TRUE)
    \/ \E t \in CrudTables, id \in 1..MaxDecayRows : DeleteById(t, id)

SpecCrud == InitIngest /\ [][NextCrud]_vars

(* C22: for each of fact, decision, task, event and project, create, get by *)
(* id, update and delete answer 201, 200, 200 and 204, and a get, update or *)
(* delete of an id that was deleted answers 404.                            *)
Stored(table, id) == \E r \in rows : r.id = id /\ r.tbl = table
Creates == {"POST /facts", "POST /decisions", "POST /tasks", "POST /events",
            "POST /projects"}

C22_Lifecycle ==
    [][/\ (resp'.op \in Creates /\ rows = {}) => resp'.code = 201
       /\ (resp'.op \in {"GET", "PUT"} /\ Stored(resp'.table, resp'.id)) =>
             resp'.code = 200
       /\ (resp'.op = "DELETE" /\ Stored(resp'.table, resp'.id)) =>
             /\ resp'.code = 204
             /\ \A r \in rows' : r.id # resp'.id
       /\ (resp'.op \in {"GET", "PUT", "DELETE"} /\ resp'.id < nextId
              /\ ~Stored(resp'.table, resp'.id)) =>
             resp'.code = 404]_vars

----------------------------------------------------------------------------
(* Agents addressed by slug and by UUID.  The third slug has the shape of *)
(* a UUID, which the slug format allows.                                   *)
SlugSamples == {SlugPlain, SlugHexy, Uuid(1)}
AddressSamples == SlugSamples \cup {Uuid(n) : n \in 1..MaxAgents}

NextAddressing ==
    \/ \E slug \in SlugSamples : PostAgent(slug, "n", {})
    \/ \E id \in AddressSamples : GetAgent(id)
    \/ \E id \in AddressSamples, dn \in {Omitted, "m"}, de \in {Omitted, "d"} :
          PatchAgent(id, dn, de)
    \/ \E id \in AddressSamples,
          patch \in {{Node(<<"k">>, "v")}, {Node(<<"k">>, "null")}} :
          PatchCoreMemory(id, patch)

SpecAddressing == Init /\ [][NextAddressing]_vars

(* C23: GET /agents/:id, PATCH /agents/:id and PATCH core-memory addressed *)
(* by the slug of an agent act on the same row, with the same result, as   *)
(* when addressed by the agent's UUID: a well-formed request is answered   *)
(* 200 with that agent's row, as the row is after the request.             *)
AddressedOps == {"GET /agents/:id", "PATCH /agents/:id", "PATCH /core-memory"}

C23_SlugAsUuid ==
    [][\A a \in agents :
          (resp'.op \in AddressedOps /\ resp'.id \in {a.slug, a.id}
              /\ resp'.code # 400) =>
             /\ resp'.code = 200
             /\ resp'.agent.id = a.id
             /\ resp'.agent \in agents']_vars

----------------------------------------------------------------------------
(* Projects of two agents, with names that differ and names that differ in *)
(* case only                                                               *)
NextProjects ==
    \/ \E a \in Agents, name \in {TxtABC, TxtCapABC, TxtX} : PostProject(a, name, TRUE)
    \/ \E id \in 1..MaxRows : GetById("projects", id)
    \/ \E id \in 1..MaxRows : DeleteById("projects", id)

SpecProjects == InitIngest /\ [][NextProjects]_vars

(* C24: a POST /projects whose derived slug equals the slug of a project of *)
(* the same agent is answered 409 and inserts nothing; otherwise, also when *)
(* only another agent has a project of that slug, it is answered 201 and    *)
(* the project is inserted.                                                 *)
SameSlug(agentId, name) ==
    \E r \in rows : /\ r.tbl = "projects" /\ r.agent = agentId
                    /\ Slug(r.content) = Slug(name)

C24_SlugConflict ==
    [][resp'.op = "POST /projects" =>
          IF SameSlug(resp'.agent, resp'.content)
          THEN resp'.code = 409 /\ rows' = rows
          ELSE /\ resp'.code = 201
               /\ \E r \in rows' \ rows : /\ r.id = resp'.id /\ r.agent = resp'.agent
                                          /\ r.content = resp'.content]_vars

----------------------------------------------------------------------------
(* Migrations (db/migrate.ts).                                             *)
(*                                                                         *)
(* ledger is the committed content of _migrations and schema the committed *)
(* effects of the migration files: <<file, k, n>> is the effect of the     *)
(* k-th statement of the file, applied for the n-th time.  A boot in       *)
(* progress is a record of inflight: its sorted files, the names it read   *)
(* from _migrations, its position, and what its transaction holds         *)
(* uncommitted.  Every query of the boot goes through the pool; the boot   *)
(* is sequential and the only user of the pool, so its queries run on one  *)
(* connection.                                                             *)

StatementsPerFile == 2

(* A directory entry: the file name without its extension, and the extension *)
Entry(stem, ext) == [stem |-> stem, ext |-> ext]
MigrationStems == <<"001_extensions", "002_agents", "004_structured_memory">>
DirEntries ==
    {Entry(MigrationStems[i], "sql") : i \in 1..Len(MigrationStems)}
        \cup {Entry("README", "md")}
Rank(stem) == CHOOSE i \in 1..Len(MigrationStems) : MigrationStems[i] = stem

(* files.filter((f) => f.endsWith('.sql')).sort() *)
RECURSIVE SortStems(_)
SortStems(stems) ==
    IF stems = {} THEN <<>>
    ELSE LET least == CHOOSE s \in stems : \A t \in stems : Rank(s) <= Rank(t)
         IN  <<least>> \o SortStems(stems \ {least})
sqlFiles(dir) == SortStems({e.stem : e \in {d \in dir : d.ext = "sql"}})

Boots == {b \in inflight : b.kind = "boot"}

(* The effects of the statements of a file that ran before statement k *)
TimesApplied(file) == Cardinality({e \in schema : e[1] = file /\ e[2] = 1})
Effects(file, k) ==
    {<<file, j, TimesApplied(file) + 1>> : j \in 1..(k - 1)}

(* What is left of the uncommitted work of a transaction that is aborted *)
AbortedKeepsWork(work) == work
Aborted(work) == {}

MigrateFrame ==
    UNCHANGED <<now, provider, rows, nextId, policies, edges, nextEdge, sessions, recalls, agents, query_log>>

BootOutcome(outcome, file, newlyApplied) ==
    [op |-> "runMigrations", outcome |-> outcome, file |-> file,
     newlyApplied |-> newlyApplied]

(* CREATE TABLE IF NOT EXISTS _migrations; SELECT name FROM _migrations; *)
(* readdir                                                               *)
BootStart(dir) ==
    /\ inflight = {}
    /\ inflight' = {[kind |-> "boot", pc |-> "next", files |-> sqlFiles(dir),
                     appliedSet |-> ledger, i |-> 1, work |-> {}, row |-> {},
                     newlyApplied |-> <<>>]}
    /\ resp' = [op |-> "boot"]
    /\ UNCHANGED <<ledger, schema>>
    /\ MigrateFrame

(* The head of the loop: the end of the boot, a file to skip, or BEGIN *)
BootNext ==
    \E b \in Boots :
        /\ b.pc = "next"
        /\ IF b.i > Len(b.files)
           THEN /\ inflight' = inflight \ {b}
                /\ resp' = BootOutcome("applied", "", b.newlyApplied)
           ELSE /\ inflight' = (inflight \ {b}) \cup
                       {IF b.files[b.i] \in b.appliedSet
                        THEN [b EXCEPT !.i = @ + 1]
                        ELSE [b EXCEPT !.pc = "sql"]}
                /\ resp' = [op |-> "boot"]
        /\ UNCHANGED <<ledger, schema>>
        /\ MigrateFrame

(* query(sql): every statement runs (failsAt beyond the last), or the     *)
(* statement failsAt fails after those before it ran                      *)
BootSql(failsAt) ==
    \E b \in Boots :
        /\ b.pc = "sql"
        /\ inflight' = (inflight \ {b}) \cup
               {IF failsAt > StatementsPerFile
                THEN [b EXCEPT !.pc = "insert",
                               !.work = Effects(b.files[b.i], failsAt)]
                ELSE [b EXCEPT !.pc = "catch",
                               !.work = Effects(b.files[b.i], failsAt)]}
        /\ resp' = [op |-> "boot"]
        /\ UNCHANGED <<ledger, schema>>
        /\ MigrateFrame

(* INSERT INTO _migrations (name): name is UNIQUE *)
BootInsert ==
    \E b \in Boots :
        /\ b.pc = "insert"
        /\ inflight' = (inflight \ {b}) \cup
               {IF b.files[b.i] \in ledger
                THEN [b EXCEPT !.pc = "catch"]
                ELSE [b EXCEPT !.pc = "commit", !.row = {b.files[b.i]}]}
        /\ resp' = [op |-> "boot"]
        /\ UNCHANGED <<ledger, schema>>
        /\ MigrateFrame

(* COMMIT; newlyApplied.push(file) *)
BootCommit ==
    \E b \in Boots :
        /\ b.pc = "commit"
        /\ schema' = schema \cup b.work
        /\ ledger' = ledger \cup b.row
        /\ inflight' = (inflight \ {b}) \cup
               {[b EXCEPT !.pc = "next", !.i = @ + 1, !.work = {}, !.row = {},
                          !.newlyApplied = Append(@, b.files[b.i])]}
        /\ resp' = [op |-> "boot"]
        /\ MigrateFrame

(* catch: ROLLBACK, then the error is thrown again and the boot is over *)
BootCatch ==
    \E b \in Boots :
        /\ b.pc = "catch"
        /\ schema' = schema \cup Aborted(b.work)
        /\ ledger' = ledger
        /\ inflight' = inflight \ {b}
        /\ resp' = BootOutcome("failed", b.files[b.i], b.newlyApplied)
        /\ MigrateFrame

(* The process is killed during the boot: its connection is closed *)
BootKilled ==
    \E b \in Boots :
        /\ schema' = schema \cup Aborted(b.work)
        /\ ledger' = ledger
        /\ inflight' = inflight \ {b}
        /\ resp' = BootOutcome("killed", "", b.newlyApplied)
        /\ MigrateFrame

NextMigrate ==
    \/ \E dir \in SUBSET DirEntries : BootStart(dir)
    \/ BootNext
    \/ \E failsAt \in 1..(StatementsPerFile + 1) : BootSql(failsAt)
    \/ BootInsert
    \/ BootCommit
    \/ BootCatch
    \/ BootKilled

SpecMigrate == Init /\ [][NextMigrate]_vars

----------------------------------------------------------------------------
(* C25: after any sequence of boots, aborted ones included, the effects of a *)
(* migration file are committed if and only if its name is in _migrations;   *)
(* no file is applied twice; the files not yet recorded are applied in the   *)
(* order of their names; a failing migration leaves no partial effect and no *)
(* ledger row, and no later file is applied in that boot.                    *)
Stems == {MigrationStems[i] : i \in 1..Len(MigrationStems)}
EffectsCommitted(file) ==
    \A k \in 1..StatementsPerFile : \E e \in schema : e[1] = file /\ e[2] = k
SomeEffect(file) == \E e \in schema : e[1] = file

CommittedIffRecorded ==
    \A f \in Stems : /\ f \in ledger <=> EffectsCommitted(f)
                     /\ SomeEffect(f) => f \in ledger
AppliedOnce == \A e \in schema : e[3] = 1

InNameOrder ==
    \A f \in ledger' \ ledger : \A b \in Boots : \A j \in 1..Len(b.files) :
        Rank(b.files[j]) < Rank(f) => b.files[j] \in ledger'

FailureStops ==
    (resp'.op = "runMigrations" /\ resp'.outcome = "failed") =>
        /\ schema' = schema /\ ledger' = ledger
        /\ resp'.file \notin ledger'
        /\ inflight' = {}
        /\ \A b \in Boots : \A j \in (b.i + 1)..Len(b.files) :
              b.files[j] \in ledger' => b.files[j] \in b.appliedSet

C25_Migrations ==
    /\ [](CommittedIffRecorded /\ AppliedOnce)
    /\ [][InNameOrder /\ FailureStops]_vars

(* A boot applied one file and failed on the next: the first is recorded and *)
(* committed, the second neither                                             *)
C25_Witness ==
    /\ resp.op = "runMigrations" /\ resp.outcome = "failed"
    /\ Len(resp.newlyApplied) >= 1
    /\ EffectsCommitted(resp.newlyApplied[1]) /\ resp.newlyApplied[1] \in ledger
    /\ ~SomeEffect(resp.file) /\ resp.file \notin ledger

----------------------------------------------------------------------------
(* C26: every completed POST to /api/v1/recall or /api/v1/search, whatever *)
(* its status, appends exactly one row to query_log, with the endpoint,    *)
(* the agent_id and query of the request and {method, status_code}.        *)
Answered == resp'.op \in {"POST /recall", "POST /search"}
EndpointOf(op) == IF op = "POST /recall" THEN "/api/v1/recall" ELSE "/api/v1/search"

C26_EveryQueryLogged ==
    [][Answered =>
          /\ Len(query_log') = Len(query_log) + 1
          /\ SubSeq(query_log', 1, Len(query_log)) = query_log
          /\ LET row == query_log'[Len(query_log')]
             IN  /\ row.endpoint = EndpointOf(resp'.op)
                 /\ row.agent_id = resp'.agent
                 /\ row.metadata = [method |-> "POST", status_code |-> resp'.code]]_vars

----------------------------------------------------------------------------
(* POST /api/v1/facts as the requests it awaits: the duplicate check and   *)
(* the embedding, then the INSERT.  A handler between the two is a record  *)
(* of inflight; mark is the id the next new row had when the check ran, so *)
(* that the rows with a smaller id are those the check could see.          *)
MaxPosts == 2

Posts == {h \in inflight : h.kind = "post"}

PostFrame ==
    UNCHANGED <<now, provider, policies, edges, nextEdge, sessions, recalls, agents, ledger, schema, query_log>>

PostFactCheck(agentId, content, dedupOk, embedOk) ==
    /\ \E dup \in checkDuplicate("facts", agentId, content, dedupOk) :
         IF dup # NoMatch
         THEN /\ resp' = Conflict("POST /facts", agentId, content, dup)
              /\ UNCHANGED inflight
         ELSE /\ Cardinality(Posts) < MaxPosts
              /\ \E n \in 1..MaxPosts :
                    /\ \A h \in Posts : h.n # n /\ h.n < n
                    /\ inflight' = inflight \cup
                          {[kind |-> "post", n |-> n, agent |-> agentId,
                            content |-> content,
                            emb |-> embedText(content, embedOk), mark |-> nextId]}
              /\ resp' = [op |-> "await"]
    /\ UNCHANGED <<rows, nextId>>
    /\ PostFrame

PostFactInsert(h) ==
    /\ h \in Posts
    /\ Insert(NewRow(nextId, "facts", h.agent, h.content, <<>>, h.emb, now, "post", 0))
    /\ resp' = Created("POST /facts", h.agent, h.content, nextId)
    /\ inflight' = inflight \ {h}
    /\ PostFrame

NextOverlap ==
    \/ \E a \in Agents, content \in {TxtABC, TxtPunct} :
          PostFactCheck(a, content, TRUE, TRUE)
    \/ \E h \in inflight : PostFactInsert(h)
    \/ \E id \in 1..MaxDecayRows : DeleteById("facts", id)

SpecOverlap == InitIngest /\ [][NextOverlap]_vars

----------------------------------------------------------------------------
(* C27: the duplicate check and the INSERT of a direct POST are not atomic: *)
(* two overlapping POSTs of the same fact content by one agent can both be  *)
(* answered 201 and leave two active rows of that content; two POSTs that   *)
(* do not overlap cannot.                                                   *)
Inserting(h) == h \in inflight /\ h \notin inflight' /\ resp'.op = "POST /facts"

(* The active facts of the handler's agent with the handler's content *)
Twins(h) ==
    {r \in rows : /\ r.tbl = "facts" /\ r.agent = h.agent /\ r.status = "active"
                  /\ r.content = h.content}

(* Every twin was inserted after the handler's check: by an overlapping POST *)
OnlyOverlapping(h) == \A r \in Twins(h) : r.id >= h.mark

C27_AsStated ==
    [][\A h \in Posts : Inserting(h) => OnlyOverlapping(h)]_vars

C27_OverlapOnly ==
    [][\A h \in Posts :
          (Inserting(h) /\ Trigrams(h.content) # {}) => OnlyOverlapping(h)]_vars

(* Two overlapping POSTs of "a b c" by one agent were both answered 201 and *)
(* both rows are active                                                     *)
C27_Witness ==
    /\ resp.op = "POST /facts" /\ resp.code = 201
    /\ Trigrams(resp.content) # {}
    /\ \E r \in rows, t \in rows :
          /\ r.id # t.id /\ t.id = resp.id
          /\ r.tbl = "facts" /\ t.tbl = "facts"
          /\ r.agent = t.agent /\ r.content = t.content /\ r.content = resp.content
          /\ r.status = "active" /\ t.status = "active"
          /\ r.via = "post" /\ t.via = "post"

----------------------------------------------------------------------------
(* Recall over a store in which events cool, are archived and are deleted *)
(* while edges from an active fact point to them                           *)
NextHidden ==
    \/ now < 60 /\ Tick
    \/ SweepTicker
    \/ \E id \in {6, 7} :
          PostEdge("A", "fact", 1, "event", id, "relates_to", NoWeight, Omitted)
    \/ \E id \in {6, 7} : GetById("events", id)
    \/ DeleteById("events", 7)
    \/ \E include_related \in BOOLEAN :
          Recall("A", TxtABC, NoTypes, 20, include_related, DefaultWeights, TRUE)

SpecHidden == InitSeeded /\ [][NextHidden]_vars

(* C28: no archived or cooling item appears in a recall response, among the *)
(* results or among the related items of one-hop expansion; such an item is *)
(* still answered 200 by GET by id; an edge whose neighbour row no longer   *)
(* exists adds no related entry and no error.                               *)
Hidden(id) == \E r \in rows : r.id = id /\ r.status \in {"cooling", "archived"}
Gone(id) == \A r \in rows : r.id # id

C28_NoHiddenItems ==
    [][/\ resp'.op = "POST /recall" =>
             /\ resp'.code = 200
             /\ \A i \in 1..Len(resp'.results) :
                   /\ ~Hidden(resp'.results[i].id)
                   /\ \A x \in resp'.results[i].related : ~Hidden(x.id) /\ ~Gone(x.id)
       /\ (resp'.op = "GET" /\ Hidden(resp'.id)) => resp'.code = 200]_vars

----------------------------------------------------------------------------
(* C29: an edge POST made with agent_id = B neither modifies nor returns an *)
(* edge row of another agent A, so that the weight and the metadata of      *)
(* every edge row were last written by a POST of the row's own agent.       *)
C29_OwnEdgesOnly ==
    [][resp'.op = "POST /edges" =>
          /\ resp'.edge.agent = resp'.agent
          /\ \A e \in edges : e.agent # resp'.agent => e \in edges']_vars

----------------------------------------------------------------------------
(* POST /api/v1/sessions/:id/end as the requests it awaits: the SELECT of  *)
(* the session with the 404 and 400 answers, summarizeSession, and the      *)
(* UPDATE that sets ended_at.  A handler between them is a record of        *)
(* inflight.                                                               *)
MaxEnds == 2

Ends == {h \in inflight : h.kind = "end"}

EndFrame ==
    UNCHANGED <<now, provider, rows, nextId, policies, edges, nextEdge, recalls, agents, ledger, schema, query_log>>

EndCheck(sessionId) ==
    /\ IF ~\E s \in sessions : s.id = sessionId
       THEN /\ resp' = [op |-> "POST /end", session |-> sessionId, code |-> 404]
            /\ UNCHANGED inflight
       ELSE IF (CHOOSE x \in sessions : x.id = sessionId).ended_at # Never
       THEN /\ resp' = [op |-> "POST /end", session |-> sessionId, code |-> 400]
            /\ UNCHANGED inflight
       ELSE /\ Cardinality(Ends) < MaxEnds
            /\ \E n \in 1..MaxEnds :
                  /\ \A h \in Ends : h.n < n
                  /\ inflight' = inflight \cup
                        {[kind |-> "end", n |-> n, session |-> sessionId,
                          pc |-> "summarize", summary |-> NoSummary]}
            /\ resp' = [op |-> "await"]
    /\ UNCHANGED sessions
    /\ EndFrame

(* summarizeSession: the summary of the messages the session has now; it *)
(* is stored on the session when there is one                            *)
EndSummarize(h, summaryOk) ==
    /\ h \in Ends
    /\ h.pc = "summarize"
    /\ LET summary == summarizeSession(h.session, summaryOk)
       IN  /\ sessions' = {IF s.id = h.session /\ summary # NoSummary
                           THEN [s EXCEPT !.summary = summary] ELSE s : s \in sessions}
           /\ inflight' = (inflight \ {h}) \cup
                            {[h EXCEPT !.pc = "update", !.summary = summary]}
    /\ resp' = [op |-> "await"]
    /\ EndFrame

(* UPDATE sessions SET ended_at = NOW(), summary = COALESCE($1, summary) *)
EndUpdate(h) ==
    /\ h \in Ends
    /\ h.pc = "update"
    /\ LET s == CHOOSE x \in sessions : x.id = h.session
           updated == [s EXCEPT !.ended_at = now,
                                !.summary = IF h.summary # NoSummary
                                            THEN h.summary ELSE @]
       IN  /\ sessions' = (sessions \ {s}) \cup {updated}
           /\ resp' = [op |-> "POST /end", session |-> h.session, code |-> 200,
                       ended_at |-> updated.ended_at, summary |-> updated.summary]
    /\ inflight' = inflight \ {h}
    /\ EndFrame

NextEnds ==
    \/ now < 60 /\ Tick
    \/ CreateSession("A")
    \/ \E ok \in BOOLEAN : AddMessage(1, TxtX, NoExtraction, ok, ok)
    \/ \E sid \in 1..(MaxSessions + 1) : EndCheck(sid)
    \/ \E h \in inflight, summaryOk \in BOOLEAN : EndSummarize(h, summaryOk)
    \/ \E h \in inflight : EndUpdate(h)
    \/ \E sid \in 1..(MaxSessions + 1) : GetSession(sid)

SpecEnds == InitIngest /\ [][NextEnds]_vars

----------------------------------------------------------------------------
(* C30: for any session at most one end request is answered 200: of two    *)
(* overlapping end requests one is answered 400, ended_at is assigned      *)
(* once and the session is summarized at most once.                        *)
EndedAt(sessionId) == (CHOOSE s \in sessions : s.id = sessionId).ended_at
Summarizing(h) == h.pc = "summarize" /\ \E g \in inflight' : g.n = h.n /\ g.pc = "update"

C30_OneEndWins ==
    [][/\ (resp'.op = "POST /end" /\ resp'.code = 200) => EndedAt(resp'.session) = Never
       /\ \A h \in Ends :
             Summarizing(h) =>
                /\ EndedAt(h.session) = Never
                /\ \A g \in Ends : g.session = h.session => g.pc = "summarize"]_vars

====
